---- MODULE Spec2Model ----
(***************************************************************************)
(* UniversoDu: prompt-plan ingestion (normalizers, fallback generator,     *)
(* handlePrompt) and the world's bounded prompt-object pool.               *)
(*                                                                         *)
(* JavaScript values are tagged records:                                   *)
(*   [t |-> "undef"], [t |-> "null"], [t |-> "bool", b |-> BOOLEAN],       *)
(*   [t |-> "num", v |-> Int]   a finite number, v = the number times 10   *)
(*   [t |-> "nan"], [t |-> "inf"]   NaN and +Infinity                      *)
(*   [t |-> "str", s |-> STRING]                                           *)
(*   [t |-> "arr", a |-> sequence of values]                               *)
(*   [t |-> "obj", o |-> function from own property names to values]       *)
(*   [t |-> "set", items |-> duplicate-free sequence, insertion order]     *)
(***************************************************************************)
EXTENDS Integers, Sequences, FiniteSets, TLC

VARIABLES
    promptObjects,   \* world.js:758  const promptObjects = []  (object ids, oldest first)
    promptGroup,     \* world.js:756  promptGroup.children      (object ids attached to the scene)
    disposed,        \* ids whose geometries/materials were disposed by disposeObject
    evicted,         \* ids shifted out of promptObjects, in eviction order
    registered,      \* number of registerPromptObject calls made so far
    regLog,          \* the register calls of the most recent handler, in call order
    call,            \* the most recent world API call and its argument
    ui,              \* ui.js state: isLoading, status, prompt log, error overlay
    sub,             \* the handlePrompt invocation in flight (or the last finished one)
    norm,            \* the most recent pure-function application (input and output)
    scene            \* world.js:699  the scene's atmosphere and the last rendered frame

vars == <<promptObjects, promptGroup, disposed, evicted, registered, regLog, call, ui, sub, norm,
          scene>>

(***************************************************************************)
(* JavaScript values                                                       *)
(***************************************************************************)
Undef == [t |-> "undef"]
Null == [t |-> "null"]
NaN == [t |-> "nan"]
Infinity == [t |-> "inf"]
Bool(b) == [t |-> "bool", b |-> b]
Num(tenths) == [t |-> "num", v |-> tenths]
Int10(n) == [t |-> "num", v |-> 10 * n]
Str(s) == [t |-> "str", s |-> s]
Arr(a) == [t |-> "arr", a |-> a]
Obj(o) == [t |-> "obj", o |-> o]
SetOf(items) == [t |-> "set", items |-> items]

typeofString(x) == x.t = "str"
typeofNumber(x) == x.t \in {"num", "nan", "inf"}
typeofObject(x) == x.t \in {"obj", "arr", "set", "null"}
isSet(x) == x.t = "set"
isArray(x) == x.t = "arr"
isFinite(x) == x.t = "num"

\* ToBoolean: the falsy values are undefined, null, false, 0, NaN and "".
truthy(x) ==
    CASE x.t \in {"undef", "null", "nan"} -> FALSE
      [] x.t = "bool" -> x.b
      [] x.t = "num" -> x.v # 0
      [] x.t = "str" -> x.s # ""
      [] OTHER -> TRUE

\* Property read obj[key]; reading a property of undefined or null throws,
\* which the callers below guard with ?. (PropOpt).
Prop(x, key) ==
    IF x.t = "obj" /\ key \in DOMAIN x.o THEN x.o[key] ELSE Undef

\* x?.key
PropOpt(x, key) ==
    IF x.t \in {"undef", "null"} THEN Undef ELSE Prop(x, key)

\* a ?? b
Nullish(a, b) == IF a.t \in {"undef", "null"} THEN b ELSE a

\* const x = value; rest: the rest of the block with x bound to the value.
With(value, rest(_)) == rest(value)

(***************************************************************************)
(* Strings                                                                 *)
(***************************************************************************)
Min(a, b) == IF a < b THEN a ELSE b
Max(a, b) == IF a > b THEN a ELSE b

lowerChar(c) ==
    CASE c = "A" -> "a" [] c = "B" -> "b" [] c = "C" -> "c" [] c = "D" -> "d"
      [] c = "E" -> "e" [] c = "F" -> "f" [] c = "G" -> "g" [] c = "H" -> "h"
      [] c = "I" -> "i" [] c = "J" -> "j" [] c = "K" -> "k" [] c = "L" -> "l"
      [] c = "M" -> "m" [] c = "N" -> "n" [] c = "O" -> "o" [] c = "P" -> "p"
      [] c = "Q" -> "q" [] c = "R" -> "r" [] c = "S" -> "s" [] c = "T" -> "t"
      [] c = "U" -> "u" [] c = "V" -> "v" [] c = "W" -> "w" [] c = "X" -> "x"
      [] c = "Y" -> "y" [] c = "Z" -> "z"
      [] OTHER -> c

RECURSIVE toLowerCase(_)
toLowerCase(s) ==
    IF s = "" THEN ""
    ELSE lowerChar(SubSeq(s, 1, 1)) \o toLowerCase(SubSeq(s, 2, Len(s)))

isSpace(c) == c \in {" ", "\n", "\t", "\r"}

RECURSIVE trimStart(_)
trimStart(s) ==
    IF s # "" /\ isSpace(SubSeq(s, 1, 1)) THEN trimStart(SubSeq(s, 2, Len(s))) ELSE s

RECURSIVE trimEnd(_)
trimEnd(s) ==
    IF s # "" /\ isSpace(SubSeq(s, Len(s), Len(s)))
    THEN trimEnd(SubSeq(s, 1, Len(s) - 1)) ELSE s

trim(s) == trimEnd(trimStart(s))

includes(s, k) ==
    \E i \in 1..(Len(s) - Len(k) + 1) : SubSeq(s, i, i + Len(k) - 1) = k

startsWith(s, k) == Len(k) <= Len(s) /\ SubSeq(s, 1, Len(k)) = k
endsWith(s, k) == Len(k) <= Len(s) /\ SubSeq(s, Len(s) - Len(k) + 1, Len(s)) = k

\* s.slice(0, n)
sliceHead(s, n) == SubSeq(s, 1, Min(n, Len(s)))

(***************************************************************************)
(* The world (src/src/world.js, second createWorld)                        *)
(***************************************************************************)
MAX_PROMPT_OBJECTS == 120

\* The pool as a value, so that one handler can fold its register calls.
World == [promptObjects |-> promptObjects, promptGroup |-> promptGroup,
          disposed |-> disposed, evicted |-> evicted,
          registered |-> registered, log |-> <<>>]

removeFrom(seq, x) == SelectSeq(seq, LAMBDA y : y # x)

\* function disposeObject(obj): every geometry and material of the graph is disposed.
disposeObject(done, obj) == done \cup {obj}

\* registerPromptObject without the eviction branch.
registerKeepsAll(w, kind) ==
    [promptObjects |-> Append(w.promptObjects, w.registered + 1),
     promptGroup |-> Append(w.promptGroup, w.registered + 1),
     disposed |-> w.disposed,
     evicted |-> w.evicted,
     registered |-> w.registered + 1,
     log |-> Append(w.log, [object |-> w.registered + 1, kind |-> kind,
                            size |-> Len(w.promptObjects) + 1, stale |-> 0,
                            disposedAttached |-> FALSE])]

\* registerPromptObject evicting with pop() on the list before the push: the
\* newest pooled object goes instead of the oldest.
registerEvictsNewest(w, kind) ==
    LET object == w.registered + 1
    IN  IF Len(w.promptObjects) + 1 > MAX_PROMPT_OBJECTS
        THEN LET stale == w.promptObjects[Len(w.promptObjects)]
                 kept == SubSeq(w.promptObjects, 1, Len(w.promptObjects) - 1)
             IN  [promptObjects |-> Append(kept, object),
                  promptGroup |-> Append(removeFrom(w.promptGroup, stale), object),
                  disposed |-> w.disposed \cup {stale},
                  evicted |-> Append(w.evicted, stale),
                  registered |-> object,
                  log |-> Append(w.log, [object |-> object, kind |-> kind,
                                         size |-> Len(kept) + 1, stale |-> stale,
                                         disposedAttached |-> FALSE])]
        ELSE registerKeepsAll(w, kind)

\* Whether an object is a child of the group.
attached(group, obj) == \E i \in DOMAIN group : group[i] = obj

\* registerPromptObject shifting and disposing the stale object without
\* removing it from the group.
registerLeavesAttached(w, kind) ==
    LET object == w.registered + 1
        pushed == Append(w.promptObjects, object)
        added == Append(w.promptGroup, object)
    IN  IF Len(pushed) > MAX_PROMPT_OBJECTS
        THEN LET stale == Head(pushed)
             IN  [promptObjects |-> Tail(pushed),
                  promptGroup |-> added,
                  disposed |-> disposeObject(w.disposed, stale),
                  evicted |-> Append(w.evicted, stale),
                  registered |-> object,
                  log |-> Append(w.log, [object |-> object, kind |-> kind,
                                         size |-> Len(pushed) - 1, stale |-> stale,
                                         disposedAttached |-> attached(added, stale)])]
        ELSE [promptObjects |-> pushed,
              promptGroup |-> added,
              disposed |-> w.disposed,
              evicted |-> w.evicted,
              registered |-> object,
              log |-> Append(w.log, [object |-> object, kind |-> kind,
                                     size |-> Len(pushed), stale |-> 0,
                                     disposedAttached |-> FALSE])]

\* registerPromptObject disposing the stale object first and removing it
\* from the group afterwards.
registerDisposesFirst(w, kind) ==
    LET object == w.registered + 1
        pushed == Append(w.promptObjects, object)
        added == Append(w.promptGroup, object)
    IN  IF Len(pushed) > MAX_PROMPT_OBJECTS
        THEN LET stale == Head(pushed)
             IN  [promptObjects |-> Tail(pushed),
                  promptGroup |-> removeFrom(added, stale),
                  disposed |-> disposeObject(w.disposed, stale),
                  evicted |-> Append(w.evicted, stale),
                  registered |-> object,
                  log |-> Append(w.log, [object |-> object, kind |-> kind,
                                         size |-> Len(pushed) - 1, stale |-> stale,
                                         disposedAttached |-> attached(added, stale)])]
        ELSE [promptObjects |-> pushed,
              promptGroup |-> added,
              disposed |-> w.disposed,
              evicted |-> w.evicted,
              registered |-> object,
              log |-> Append(w.log, [object |-> object, kind |-> kind,
                                     size |-> Len(pushed), stale |-> 0,
                                     disposedAttached |-> FALSE])]

\* function registerPromptObject(object): the object is the next fresh id,
\* spawned by the factory `kind`. disposedAttached tells whether the stale
\* object was still a child of the group when disposeObject was called.
registerPromptObject(w, kind) ==
    LET object == w.registered + 1
        pushed == Append(w.promptObjects, object)
        added == Append(w.promptGroup, object)
    IN  IF Len(pushed) > MAX_PROMPT_OBJECTS
        THEN LET stale == Head(pushed)
                 removed == removeFrom(added, stale)
             IN  [promptObjects |-> Tail(pushed),
                  promptGroup |-> removed,
                  disposed |-> disposeObject(w.disposed, stale),
                  evicted |-> Append(w.evicted, stale),
                  registered |-> object,
                  log |-> Append(w.log, [object |-> object, kind |-> kind,
                                         size |-> Len(pushed) - 1, stale |-> stale,
                                         disposedAttached |-> attached(removed, stale)])]
        ELSE [promptObjects |-> pushed,
              promptGroup |-> added,
              disposed |-> w.disposed,
              evicted |-> w.evicted,
              registered |-> object,
              log |-> Append(w.log, [object |-> object, kind |-> kind,
                                     size |-> Len(pushed), stale |-> 0,
                                     disposedAttached |-> FALSE])]

(***************************************************************************)
(* Day stages (world.js 645-686, 700-742, 890-898, 1062-1071)              *)
(***************************************************************************)
\* const DAY_STAGES: colours as the hexadecimal numbers written, fogDensity
\* in units of 1/10000 and the intensities in units of 1/100.
DAY_STAGES ==
    [amanecer |-> [skyColor |-> Num(\Hfef5e8), fogColor |-> Num(\Hf1dcb7),
                   fogDensity |-> Num(8), sunColor |-> Num(\Hffe5b5),
                   sunIntensity |-> Num(135), ambientIntensity |-> Num(45)],
     manana |-> [skyColor |-> Num(\Hfdf6f1), fogColor |-> Num(\Hf5e9ce),
                 fogDensity |-> Num(7), sunColor |-> Num(\Hfff0c3),
                 sunIntensity |-> Num(160), ambientIntensity |-> Num(60)],
     tarde |-> [skyColor |-> Num(\Hffe7c6), fogColor |-> Num(\Hf0caa2),
                fogDensity |-> Num(9), sunColor |-> Num(\Hffc16c),
                sunIntensity |-> Num(140), ambientIntensity |-> Num(50)],
     atardecer |-> [skyColor |-> Num(\Hf6b098), fogColor |-> Num(\Hd39378),
                    fogDensity |-> Num(12), sunColor |-> Num(\Hf86c4f),
                    sunIntensity |-> Num(110), ambientIntensity |-> Num(35)],
     noche |-> [skyColor |-> Num(\H0d1220), fogColor |-> Num(\H0b0f1c),
                fogDensity |-> Num(15), sunColor |-> Num(\H6ab0ff),
                sunIntensity |-> Num(35), ambientIntensity |-> Num(20)]]

\* Names every object literal inherits from Object.prototype; the value read
\* under such a name is a function or an object, hence truthy, and has none
\* of the properties of a stage.
ObjectPrototypeNames ==
    {"constructor", "toString", "valueOf", "hasOwnProperty", "isPrototypeOf",
     "propertyIsEnumerable", "toLocaleString", "__proto__"}

\* const settings = DAY_STAGES[stage] || DAY_STAGES.amanecer
stageSettings(stage) ==
    IF stage \in DOMAIN DAY_STAGES THEN DAY_STAGES[stage]
    ELSE IF stage \in ObjectPrototypeNames THEN <<>>
    ELSE DAY_STAGES.amanecer

\* settings.key
settingOf(settings, key) == IF key \in DOMAIN settings THEN settings[key] ELSE Undef

\* THREE.Color.set(value): a number sets the colour, undefined leaves it.
colorSet(color, value) == IF value.t = "num" THEN value ELSE color

\* The scene's atmosphere as createWorld builds it; frame is what the last
\* renderer.render drew (null before the first), staged whether setDayStage
\* has run.
constructedScene ==
    [background |-> Num(\Hf4e4c5), fogColor |-> Num(\Hf1dcb7), fogDensity |-> Num(8),
     ambientIntensity |-> Num(45), sunIntensity |-> Num(135), sunColor |-> Num(\Hffe5b5),
     skyMaterialColor |-> Num(\Hfef5e8), staged |-> FALSE, frame |-> Null]

\* function setDayStage(stage)
setDayStage(sc, stage) ==
    With(stageSettings(stage), LAMBDA settings :
        [sc EXCEPT !.background = colorSet(sc.background, settingOf(settings, "skyColor")),
                   !.fogColor = colorSet(sc.fogColor, settingOf(settings, "fogColor")),
                   !.fogDensity = settingOf(settings, "fogDensity"),
                   !.ambientIntensity = settingOf(settings, "ambientIntensity"),
                   !.sunIntensity = settingOf(settings, "sunIntensity"),
                   !.sunColor = colorSet(sc.sunColor, settingOf(settings, "sunColor")),
                   !.skyMaterialColor =
                        colorSet(sc.skyMaterialColor, settingOf(settings, "skyColor")),
                   !.staged = TRUE])

\* The six atmosphere parameters of a scene, under the names of a stage.
atmosphereOf(sc) ==
    [skyColor |-> sc.background, fogColor |-> sc.fogColor, fogDensity |-> sc.fogDensity,
     sunColor |-> sc.sunColor, sunIntensity |-> sc.sunIntensity,
     ambientIntensity |-> sc.ambientIntensity]

\* renderer.render(scene, camera) in animate: the frame shows the scene as it is.
renderFrame(sc) == [sc EXCEPT !.frame = [atmosphere |-> atmosphereOf(sc), staged |-> sc.staged]]

(***************************************************************************)
(* Numbers: Number(x), Math.round, clamp                                   *)
(***************************************************************************)
digitOf(c) ==
    CASE c = "0" -> 0 [] c = "1" -> 1 [] c = "2" -> 2 [] c = "3" -> 3 [] c = "4" -> 4
      [] c = "5" -> 5 [] c = "6" -> 6 [] c = "7" -> 7 [] c = "8" -> 8 [] c = "9" -> 9
      [] OTHER -> -1

allDigits(s) == \A i \in 1..Len(s) : digitOf(SubSeq(s, i, i)) >= 0

RECURSIVE digitsValue(_)
digitsValue(s) ==
    IF s = "" THEN 0
    ELSE 10 * digitsValue(SubSeq(s, 1, Len(s) - 1)) + digitOf(SubSeq(s, Len(s), Len(s)))

indexOf(s, k) ==
    IF includes(s, k)
    THEN CHOOSE i \in 1..(Len(s) - Len(k) + 1) :
            /\ SubSeq(s, i, i + Len(k) - 1) = k
            /\ \A j \in 1..(i - 1) : SubSeq(s, j, j + Len(k) - 1) # k
    ELSE 0

\* An unsigned decimal literal (digits, optionally a point and digits), as a
\* number times 10; the literals of the input sets carry at most one
\* fractional digit, further digits are cut.
unsignedDecimal(s) ==
    With(indexOf(s, "."), LAMBDA dot :
        LET whole == IF dot = 0 THEN s ELSE SubSeq(s, 1, dot - 1)
            frac == IF dot = 0 THEN "" ELSE SubSeq(s, dot + 1, Len(s))
        IN  IF (whole = "" /\ frac = "") \/ ~allDigits(whole) \/ ~allDigits(frac)
            THEN NaN
            ELSE Num(10 * digitsValue(whole)
                     + (IF frac = "" THEN 0 ELSE digitOf(SubSeq(frac, 1, 1)))))

\* Number(string): StringToNumber of the trimmed text.
stringToNumber(s) ==
    With(trim(s), LAMBDA text :
        LET signed == text # "" /\ SubSeq(text, 1, 1) \in {"-", "+"}
            body == IF signed THEN SubSeq(text, 2, Len(text)) ELSE text
        IN  IF text = "" THEN Num(0)
            ELSE With(IF body = "Infinity" THEN Infinity ELSE unsignedDecimal(body),
                      LAMBDA mag :
                        IF signed /\ SubSeq(text, 1, 1) = "-" /\ mag.t = "num"
                        THEN Num(0 - mag.v)
                        ELSE mag))

\* Number(value)
Number(x) ==
    CASE x.t \in {"num", "nan", "inf"} -> x
      [] x.t = "str" -> stringToNumber(x.s)
      [] x.t = "null" -> Num(0)
      [] x.t = "bool" -> IF x.b THEN Num(10) ELSE Num(0)
      [] x.t = "arr" /\ x.a = <<>> -> Num(0)
      [] OTHER -> NaN

\* Math.round: the nearest integer, halves rounded up.
mathRound(tenths) == 10 * ((tenths + 5) \div 10)

\* THREE.MathUtils.clamp(value, min, max) = Math.max(min, Math.min(max, value))
clamp(value, lo, hi) == Max(lo, Min(hi, value))

(***************************************************************************)
(* Spawn resolver (world.js 929-1060)                                      *)
(***************************************************************************)
\* function clampInstructionQuantity(value): an integer count.
clampInstructionQuantity(value) ==
    With(Number(value), LAMBDA num :
        IF ~isFinite(num) THEN 1
        ELSE clamp(mathRound(num.v), 10, 80) \div 10)

\* function spawnHandlers(tag): the factory the switch selects.
tagFactory(tag) ==
    IF tag.t # "str" THEN "spawnMirage"
    ELSE CASE tag.s = "cacti" -> "spawnCacti"
           [] tag.s = "rocks" -> "spawnRocks"
           [] tag.s = "oasis" -> "spawnOasis"
           [] tag.s = "ruins" -> "spawnRuins"
           [] tag.s = "crystals" -> "spawnCrystals"
           [] tag.s = "mirage" -> "spawnMirage"
           [] tag.s = "fireflies" -> "spawnFireflies"
           [] tag.s = "totems" -> "spawnTotems"
           [] tag.s = "creatures" -> "spawnCreatures"
           [] tag.s = "nomads" -> "spawnNomads"
           [] tag.s = "structures" -> "spawnStructures"
           [] tag.s = "storm" -> "spawnStorm"
           [] tag.s = "flora" -> "spawnFlora"
           [] tag.s = "portals" -> "spawnPortals"
           [] tag.s = "sentinels" -> "spawnSentinels"
           [] OTHER -> "spawnMirage"

\* spawnHandlers whose switch has no default case.
spawnHandlersNoDefault(w, tag) ==
    IF tagFactory(tag) = "spawnMirage" /\ tag # Str("mirage") THEN w
    ELSE registerPromptObject(w, tagFactory(tag))

spawnHandlers(w, tag) == registerPromptObject(w, tagFactory(tag))

\* function spawnFromTags(tags): tags.forEach in insertion order.
RECURSIVE spawnTagsFrom(_, _, _)
spawnTagsFrom(w, items, i) ==
    IF i > Len(items) THEN w
    ELSE spawnTagsFrom(spawnHandlers(w, items[i]), items, i + 1)

spawnFromTags(w, tags) ==
    spawnTagsFrom(w, IF isSet(tags) THEN tags.items ELSE tags.a, 1)

\* new Set(array): first occurrences, in order.
RECURSIVE dedupe(_)
dedupe(a) ==
    IF a = <<>> THEN <<>>
    ELSE LET front == dedupe(SubSeq(a, 1, Len(a) - 1))
             last == a[Len(a)]
         IN  IF \E i \in 1..Len(front) : front[i] = last THEN front
             ELSE Append(front, last)

newSet(array) == SetOf(dedupe(array.a))

\* const ENTITY_SPAWNERS = {...}: own properties.
ENTITY_SPAWNERS ==
    [structure |-> "spawnInstructionStructure",
     tower |-> "spawnInstructionStructure",
     tree |-> "spawnInstructionTree",
     oasis |-> "spawnInstructionOasis",
     water |-> "spawnInstructionWater",
     crystal |-> "spawnInstructionCrystal",
     portal |-> "spawnInstructionPortal",
     fireflies |-> "spawnInstructionFireflies",
     totem |-> "spawnInstructionTotem",
     rock |-> "spawnInstructionRock",
     dune |-> "spawnInstructionDune",
     bridge |-> "spawnInstructionBridge",
     monolith |-> "spawnInstructionMonolith",
     flora |-> "spawnInstructionFlora",
     creature |-> "spawnInstructionCreature",
     sentinel |-> "spawnInstructionSentinel",
     cacti |-> "spawnInstructionCacti",
     ruins |-> "spawnInstructionRuins",
     mirage |-> "spawnInstructionMirage",
     nomad |-> "spawnInstructionNomads",
     storm |-> "spawnInstructionStorm"]

RECURSIVE registerTimes(_, _, _)
registerTimes(w, kind, n) ==
    IF n = 0 THEN w ELSE registerTimes(registerPromptObject(w, kind), kind, n - 1)

\* The body of entities.forEach((entity) => {...}) in spawnFromEntities.
spawnEntity(w, entity) ==
    IF ~truthy(entity) \/ ~typeofObject(entity) THEN w
    ELSE LET type == IF typeofString(Prop(entity, "type"))
                     THEN toLowerCase(Prop(entity, "type").s) ELSE ""
         IN  IF type \notin DOMAIN ENTITY_SPAWNERS THEN w
             ELSE registerTimes(w, ENTITY_SPAWNERS[type],
                                clampInstructionQuantity(Prop(entity, "quantity")))

RECURSIVE spawnEntitiesFrom(_, _, _)
spawnEntitiesFrom(w, items, i) ==
    IF i > Len(items) THEN w
    ELSE spawnEntitiesFrom(spawnEntity(w, items[i]), items, i + 1)

\* function spawnFromEntities(entities = [])
spawnFromEntities(w, entities) ==
    IF entities.t = "undef" THEN w ELSE spawnEntitiesFrom(w, entities.a, 1)

\* function applyPromptPlan(plan)
applyPromptPlan(w, plan) ==
    With(PropOpt(plan, "tags"), LAMBDA tags :
        With(IF isSet(tags) THEN spawnFromTags(w, tags)
             ELSE IF isArray(tags) THEN spawnFromTags(w, newSet(tags))
             ELSE w,
             LAMBDA afterTags :
                IF isArray(PropOpt(plan, "entities")) /\ Len(PropOpt(plan, "entities").a) > 0
                THEN spawnFromEntities(afterTags, PropOpt(plan, "entities"))
                ELSE afterTags))

\* createWorld: spawnFromTags(new Set(["rocks", "cacti", "mirage"])) on an empty pool.
baseline ==
    spawnFromTags([promptObjects |-> <<>>, promptGroup |-> <<>>, disposed |-> {},
                   evicted |-> <<>>, registered |-> 0, log |-> <<>>],
                  newSet(Arr(<<Str("rocks"), Str("cacti"), Str("mirage")>>)))

(***************************************************************************)
(* Placement distance (world.js 921-951, 2059-2070)                        *)
(***************************************************************************)
\* function specSizeToScale(sizeValue, explicitScale): the scale in tenths.
specSizeToScale(sizeValue, explicitScale) ==
    IF explicitScale.t = "num" THEN clamp(explicitScale.v, 4, 40)
    ELSE IF typeofString(sizeValue)
    THEN With(toLowerCase(sizeValue.s), LAMBDA value :
            IF value \in {"tiny", "small", "pequeno", "pequeño"} THEN 7
            ELSE IF value \in {"huge", "large", "gigantic", "enorme", "grand", "grande"}
                 THEN 16
            ELSE IF value \in {"colossal", "gigante"} THEN 22
            ELSE 10)
    ELSE 10

\* Number.isFinite(spread) ? spread : 0, in tenths
finiteOrZero(spread) == IF spread.t = "num" THEN spread.v ELSE 0

\* An instructionDistanceRange whose maximum is not clamped.
instructionDistanceRangeUnclamped(spec) ==
    With(specSizeToScale(Prop(spec, "size"), Prop(spec, "scale")), LAMBDA sizeScale :
        With(clamp(35 * Max(5, Min(14, sizeScale)), 200, 2400), LAMBDA min :
            <<min,
              160 * Max(8, Min(16, sizeScale))
                 + finiteOrZero(Number(Prop(spec, "spread")))>>))

\* function instructionDistanceRange(spec = {}): [min, max] in tenths; baseMin
\* 35 and baseMax 160 times a scale in tenths are distances in tenths.
instructionDistanceRange(spec) ==
    With(specSizeToScale(Prop(spec, "size"), Prop(spec, "scale")), LAMBDA sizeScale :
        With(clamp(35 * Max(5, Min(14, sizeScale)), 200, 2400), LAMBDA min :
            <<min,
              clamp(160 * Max(8, Min(16, sizeScale))
                       + finiteOrZero(Number(Prop(spec, "spread"))),
                    min + 100, 4200)>>))

\* const distance = minDist + Math.random() * (maxDist - minDist), for a draw
\* of d sixths; in tenths, rounded down.
sampledDistance(range, d) == range[1] + (d * (range[2] - range[1])) \div 6

(***************************************************************************)
(* Vocabularies (src/src/constants.js 7-122)                               *)
(***************************************************************************)
descriptor(type, quantity) == Obj([type |-> type, quantity |-> quantity])

ALLOWED_TAGS ==
    {"cacti", "rocks", "oasis", "ruins", "crystals", "mirage", "fireflies", "totems",
     "structures", "flora", "portals", "storm", "sentinels", "creatures", "nomads"}

ENTITY_TYPES ==
    {"structure", "tower", "tree", "oasis", "water", "crystal", "portal", "fireflies",
     "totem", "rock", "dune", "bridge", "monolith", "flora", "creature", "sentinel",
     "cacti", "ruins", "mirage", "nomad", "storm",
     "human", "bird", "fish", "deer", "wolf", "horse", "sea", "river_detailed",
     "lake_detailed"}

\* Own properties of the object literal; of a key written twice ("lakes") the
\* later value stands.
ENTITY_TYPE_ALIASES ==
    [structures |-> "structure", building |-> "structure", buildings |-> "structure",
     towers |-> "tower", trees |-> "tree", cactus |-> "cacti", cactuses |-> "cacti",
     oasis |-> "oasis", waters |-> "water", lakes |-> "lake_detailed",
     crystals |-> "crystal", portals |-> "portal", gateways |-> "portal",
     firefly |-> "fireflies", totems |-> "totem", rocks |-> "rock", stones |-> "rock",
     dunes |-> "dune", bridges |-> "bridge", monoliths |-> "monolith",
     florae |-> "flora", plants |-> "flora", creatures |-> "creature",
     sentinels |-> "sentinel", guardians |-> "sentinel", ruins |-> "ruins",
     temples |-> "ruins", mirages |-> "mirage", visions |-> "mirage",
     nomads |-> "nomad", caravans |-> "nomad", storms |-> "storm", person |-> "human",
     figure |-> "human", man |-> "human", woman |-> "human", people |-> "human",
     humans |-> "human", birds |-> "bird", eagle |-> "bird", hawk |-> "bird",
     fishes |-> "fish", deers |-> "deer", wolves |-> "wolf", dog |-> "wolf",
     dogs |-> "wolf", horses |-> "horse", animal |-> "deer", animals |-> "deer",
     ocean |-> "sea", seas |-> "sea", oceans |-> "sea", river |-> "river_detailed",
     rivers |-> "river_detailed", lake |-> "lake_detailed"]

(***************************************************************************)
(* Utilities (src/src/constants.js 683-927)                                *)
(***************************************************************************)
digitChar(d) ==
    CASE d = 0 -> "0" [] d = 1 -> "1" [] d = 2 -> "2" [] d = 3 -> "3" [] d = 4 -> "4"
      [] d = 5 -> "5" [] d = 6 -> "6" [] d = 7 -> "7" [] d = 8 -> "8" [] OTHER -> "9"

RECURSIVE natToString(_)
natToString(n) ==
    IF n < 10 THEN digitChar(n) ELSE natToString(n \div 10) \o digitChar(n % 10)

\* Number.prototype.toString of a number given in tenths.
numToString(v) ==
    LET m == IF v < 0 THEN 0 - v ELSE v
        text == natToString(m \div 10)
                   \o (IF m % 10 = 0 THEN "" ELSE "." \o digitChar(m % 10))
    IN  IF v < 0 THEN "-" \o text ELSE text

\* value.toString()
RECURSIVE toStringJS(_)
toStringJS(x) ==
    CASE x.t = "str" -> x.s
      [] x.t = "num" -> numToString(x.v)
      [] x.t = "nan" -> "NaN"
      [] x.t = "inf" -> "Infinity"
      [] x.t = "bool" -> IF x.b THEN "true" ELSE "false"
      [] x.t = "arr" ->
            IF x.a = <<>> THEN ""
            ELSE LET last == x.a[Len(x.a)]
                     text == IF last.t \in {"null", "undef"} THEN "" ELSE toStringJS(last)
                 IN  IF Len(x.a) = 1 THEN text
                     ELSE toStringJS(Arr(SubSeq(x.a, 1, Len(x.a) - 1))) \o "," \o text
      [] OTHER -> "[object Object]"

\* value.replace(/,/g, ".")
RECURSIVE replaceCommas(_)
replaceCommas(s) ==
    IF s = "" THEN ""
    ELSE (IF SubSeq(s, 1, 1) = "," THEN "." ELSE SubSeq(s, 1, 1))
            \o replaceCommas(SubSeq(s, 2, Len(s)))

\* export function toFiniteNumber(value, fallback)
toFiniteNumber(value, fallback) ==
    IF value.t = "num" THEN value
    ELSE With(IF value.t = "str" THEN stringToNumber(replaceCommas(trim(value.s))) ELSE NaN,
              LAMBDA normalized :
                IF isFinite(normalized) THEN normalized
                ELSE IF typeofNumber(fallback) THEN fallback ELSE Undef)

\* export function clampNumber(value, min, max): bounds in tenths.
clampNumber(value, lo, hi) ==
    IF ~typeofNumber(value) \/ value.t = "nan" THEN Num(lo)
    ELSE IF value.t = "inf" THEN Num(hi)
    ELSE Num(Max(lo, Min(hi, value.v)))

\* Set.prototype.add
setAdd(set, x) ==
    IF \E i \in DOMAIN set.items : set.items[i] = x THEN set
    ELSE SetOf(Append(set.items, x))

\* The else-if chain of normalizeTags: fragments, in order, and the tag each adds.
TagHeuristics ==
    << [frags |-> {"oasis"}, tag |-> "oasis"],
       [frags |-> {"cact"}, tag |-> "cacti"],
       [frags |-> {"ruin", "templo"}, tag |-> "ruins"],
       [frags |-> {"cristal", "crystal"}, tag |-> "crystals"],
       [frags |-> {"luci", "fuego", "estre"}, tag |-> "fireflies"],
       [frags |-> {"totem", "escultura"}, tag |-> "totems"],
       [frags |-> {"roca", "piedra", "meteor"}, tag |-> "rocks"],
       [frags |-> {"espej", "mirage", "bruma"}, tag |-> "mirage"],
       [frags |-> {"criatura", "ser"}, tag |-> "creatures"],
       [frags |-> {"nomada", "caravana"}, tag |-> "nomads"],
       [frags |-> {"estructura", "torre", "ciudad"}, tag |-> "structures"],
       [frags |-> {"tormenta", "viento"}, tag |-> "storm"],
       [frags |-> {"flora", "veget"}, tag |-> "flora"],
       [frags |-> {"portal"}, tag |-> "portals"],
       [frags |-> {"centinela", "guardian"}, tag |-> "sentinels"] >>

heuristicHits(normalized) ==
    {i \in DOMAIN TagHeuristics : \E f \in TagHeuristics[i].frags : includes(normalized, f)}

RECURSIVE addTagsOf(_, _, _)
addTagsOf(cleaned, hits, i) ==
    IF i > Len(TagHeuristics) THEN cleaned
    ELSE addTagsOf(IF i \in hits THEN setAdd(cleaned, Str(TagHeuristics[i].tag)) ELSE cleaned,
                   hits, i + 1)

\* The forEach body with every `else if` written as `if`.
normalizeTagEveryHit(cleaned, tag) ==
    IF ~truthy(tag) THEN cleaned
    ELSE LET normalized == trim(toLowerCase(toStringJS(tag)))
         IN  IF normalized \in ALLOWED_TAGS THEN setAdd(cleaned, Str(normalized))
             ELSE addTagsOf(cleaned, heuristicHits(normalized), 1)

\* The body of list.forEach((tag) => {...}) in normalizeTags.
normalizeTag(cleaned, tag) ==
    IF ~truthy(tag) THEN cleaned
    ELSE LET normalized == trim(toLowerCase(toStringJS(tag)))
             hits == heuristicHits(normalized)
         IN  IF normalized \in ALLOWED_TAGS THEN setAdd(cleaned, Str(normalized))
             ELSE IF hits = {} THEN cleaned
             ELSE setAdd(cleaned,
                         Str(TagHeuristics[CHOOSE i \in hits : \A j \in hits : i <= j].tag))

RECURSIVE normalizeTagsFrom(_, _, _)
normalizeTagsFrom(cleaned, list, i) ==
    IF i > Len(list) THEN cleaned
    ELSE normalizeTagsFrom(normalizeTag(cleaned, list[i]), list, i + 1)

\* export function normalizeTags(list): list is an array.
normalizeTags(list) == normalizeTagsFrom(SetOf(<<>>), list.a, 1)

\* candidate.split(/[,\n]/)
RECURSIVE splitTags(_, _)
splitTags(s, piece) ==
    IF s = "" THEN <<Str(piece)>>
    ELSE IF SubSeq(s, 1, 1) \in {",", "\n"}
    THEN <<Str(piece)>> \o splitTags(SubSeq(s, 2, Len(s)), "")
    ELSE splitTags(SubSeq(s, 2, Len(s)), piece \o SubSeq(s, 1, 1))

\* payload?.key ?? payload?.result?.key ?? payload?.data?.key ?? payload?.response?.key
firstDefined(payload, key) ==
    Nullish(PropOpt(payload, key),
    Nullish(PropOpt(PropOpt(payload, "result"), key),
    Nullish(PropOpt(PropOpt(payload, "data"), key),
            PropOpt(PropOpt(payload, "response"), key))))

\* export function extractTags(payload)
extractTags(payload) ==
    With(firstDefined(payload, "tags"), LAMBDA candidate :
        IF isArray(candidate) THEN candidate
        ELSE IF typeofString(candidate) THEN Arr(splitTags(candidate.s, ""))
        ELSE Arr(<<>>))

\* export function extractSummary(payload)
extractSummary(payload) ==
    With(firstDefined(payload, "summary"), LAMBDA candidate :
        IF typeofString(candidate) /\ trim(candidate.s) # "" THEN Str(trim(candidate.s))
        ELSE Str(""))

\* export function extractEntities(payload)
extractEntities(payload) ==
    With(firstDefined(payload, "entities"), LAMBDA candidate :
        IF isArray(candidate) THEN candidate ELSE Arr(<<>>))

withField(o, key, value) ==
    [k \in DOMAIN o \cup {key} |-> IF k = key THEN value ELSE o[k]]

\* if (typeof entity[key] === "string" && entity[key].trim()) normalized[key] = ...slice(0, n)
withText(o, entity, key, cap) ==
    With(Prop(entity, key), LAMBDA text :
        IF typeofString(text) /\ trim(text.s) # ""
        THEN withField(o, key, Str(sliceHead(trim(text.s), cap)))
        ELSE o)

\* const num = toFiniteNumber(entity[key]); if (typeof num === "number") normalized[key] = num
withNumber(o, entity, key) ==
    With(toFiniteNumber(Prop(entity, key), Undef), LAMBDA num :
        IF typeofNumber(num) THEN withField(o, key, num) ELSE o)

\* color, trunkColor, foliageColor and detail, each with its length cap
TextKeys ==
    << <<"color", 32>>, <<"trunkColor", 32>>, <<"foliageColor", 32>>, <<"detail", 160>> >>

RECURSIVE withTexts(_, _, _)
withTexts(o, entity, keys) ==
    IF keys = <<>> THEN o
    ELSE withTexts(withText(o, entity, Head(keys)[1], Head(keys)[2]), entity, Tail(keys))

NumberKeys == <<"floors", "height", "width", "depth", "radius", "length", "spread">>

\* ["floors", ..., "spread"].forEach((key) => {...})
RECURSIVE withNumbers(_, _, _)
withNumbers(o, entity, keys) ==
    IF keys = <<>> THEN o
    ELSE withNumbers(withNumber(o, entity, Head(keys)), entity, Tail(keys))

\* const normalized = { type: canonical, quantity: ... }
normalizedBase(entity, type) ==
    [type |-> Str(IF type \in DOMAIN ENTITY_TYPE_ALIASES
                  THEN ENTITY_TYPE_ALIASES[type] ELSE type),
     quantity |->
        With(toFiniteNumber(Nullish(Prop(entity, "quantity"),
                                    Nullish(Prop(entity, "count"), Int10(1))),
                            Int10(1)),
             LAMBDA found : clampNumber(IF truthy(found) THEN found ELSE Int10(1), 10, 80))]

\* if (typeof entity.size === "string" && entity.size.trim()) normalized.size = ...
withSize(o, entity) ==
    With(Prop(entity, "size"), LAMBDA size :
        IF typeofString(size) /\ trim(size.s) # ""
        THEN withField(o, "size", Str(toLowerCase(trim(size.s))))
        ELSE o)

\* if (typeof entity.scale === "number" && Number.isFinite(entity.scale)) ...
withScale(o, entity) ==
    With(Prop(entity, "scale"), LAMBDA scale :
        IF scale.t = "num" THEN withField(o, "scale", clampNumber(scale, 3, 40)) ELSE o)

\* The result of one pass of list.forEach((entity) => {...}) in normalizeEntities:
\* <<>> when the candidate is dropped, <<normalized>> otherwise.
normalizeEntity(entity) ==
    IF ~truthy(entity) \/ ~typeofObject(entity) THEN <<>>
    ELSE With(Nullish(Prop(entity, "type"),
                      Nullish(Prop(entity, "entity"), Prop(entity, "kind"))),
              LAMBDA typeSource :
         With(IF typeofString(typeSource) THEN trim(toLowerCase(typeSource.s)) ELSE "",
              LAMBDA type :
                IF type = "" THEN <<>>
                ELSE <<Obj(withNumbers(
                             withTexts(
                               withScale(withSize(normalizedBase(entity, type), entity),
                                         entity),
                               entity, TextKeys),
                             entity, NumberKeys))>>))

RECURSIVE normalizeEntitiesFrom(_)
normalizeEntitiesFrom(list) ==
    IF list = <<>> THEN <<>>
    ELSE normalizeEntity(Head(list)) \o normalizeEntitiesFrom(Tail(list))

\* export function normalizeEntities(list)
normalizeEntities(list) ==
    IF ~isArray(list) THEN Arr(<<>>) ELSE Arr(normalizeEntitiesFrom(list.a))

\* export function tagLabel(tag)
TAG_LABELS ==
    [cacti |-> "Cactaceas luminicas", rocks |-> "Cantiles petreos",
     oasis |-> "Oasis nebuloso", ruins |-> "Ruinas misticas",
     crystals |-> "Coral de cristal", mirage |-> "Espejismo solar",
     fireflies |-> "Luciernagas sonicas", totems |-> "Totems del viento",
     creatures |-> "Seres errantes", nomads |-> "Caravana nomada",
     structures |-> "Arquitectura viva", storm |-> "Tormenta resonante",
     flora |-> "Flora hibrida", portals |-> "Portales astrales",
     sentinels |-> "Centinelas"]

tagLabel(tag) ==
    IF tag.t = "str" /\ tag.s \in DOMAIN TAG_LABELS THEN TAG_LABELS[tag.s]
    ELSE "Nuevo relieve"

(***************************************************************************)
(* Fallback generator (main module, KEYWORD_MAP and localGenerateFromPrompt)*)
(***************************************************************************)
\* Object.entries(KEYWORD_MAP): the keys in the order first written, each with
\* the value written last.
KEYWORD_MAP ==
    << <<"cactus", "cacti">>, <<"cactos", "cacti">>, <<"roca", "rocks">>,
       <<"rocas", "rocks">>, <<"piedra", "rocks">>, <<"piedras", "rocks">>,
       <<"ruina", "ruins">>, <<"ruinas", "ruins">>, <<"templo", "temple">>,
       <<"templos", "temple">>, <<"oasis", "oasis">>, <<"lago", "water">>,
       <<"agua", "water">>, <<"rio", "water">>, <<"cristal", "crystal">>,
       <<"cristales", "crystal">>, <<"espejismo", "mirage">>, <<"mirage", "mirage">>,
       <<"luciernaga", "fireflies">>, <<"luciernagas", "fireflies">>,
       <<"fireflies", "fireflies">>, <<"totem", "totem">>, <<"totems", "totem">>,
       <<"totemes", "totem">>, <<"criatura", "creature">>, <<"criaturas", "creature">>,
       <<"monstruo", "creature">>, <<"nomada", "nomad">>, <<"nomadas", "nomad">>,
       <<"campamento", "tent">>, <<"estructura", "structure">>, <<"torre", "tower">>,
       <<"torres", "tower">>, <<"tormenta", "storm">>, <<"rayo", "storm">>,
       <<"rayos", "storm">>, <<"flora", "flora">>, <<"planta", "flora">>,
       <<"plantas", "flora">>, <<"flor", "flora">>, <<"flores", "flora">>,
       <<"portal", "portal">>, <<"portales", "portal">>, <<"centinela", "sentinel">>,
       <<"centinelas", "sentinel">>, <<"guardian", "sentinel">>,
       <<"montana", "mountain">>, <<"montanas", "mountain">>, <<"montaña", "mountain">>,
       <<"montañas", "mountain">>, <<"piramide", "pyramid">>,
       <<"piramides", "pyramid">>, <<"pirámide", "pyramid">>, <<"estatua", "statue">>,
       <<"estatuas", "statue">>, <<"cascada", "waterfall">>,
       <<"cascadas", "waterfall">>, <<"aurora", "aurora">>, <<"boreal", "aurora">>,
       <<"cometa", "comet">>, <<"cometas", "comet">>, <<"meteoro", "comet">>,
       <<"calavera", "skull">>, <<"craneo", "skull">>, <<"huesos", "skull">>,
       <<"geiser", "geyser">>, <<"geyser", "geyser">>, <<"nebulosa", "nebula">>,
       <<"nebula", "nebula">>, <<"estrellas", "nebula">>, <<"fogata", "campfire">>,
       <<"fuego", "campfire">>, <<"hoguera", "campfire">>, <<"tienda", "tent">>,
       <<"carpa", "tent">>, <<"arbol", "tree">>, <<"arboles", "tree">>,
       <<"palmera", "tree">>, <<"palma", "tree">>, <<"duna", "dune">>,
       <<"dunas", "dune">>, <<"arena", "dune">>, <<"puente", "bridge">>,
       <<"puentes", "bridge">>, <<"monolito", "monolith">>, <<"monolitos", "monolith">>,
       <<"hongo", "flora">>, <<"hongos", "flora">>, <<"seta", "flora">>,
       <<"rock", "rocks">>, <<"rocks", "rocks">>, <<"stone", "rocks">>,
       <<"cacti", "cacti">>, <<"ruin", "ruins">>, <<"ruins", "ruins">>,
       <<"temple", "temple">>, <<"crystal", "crystal">>, <<"crystals", "crystal">>,
       <<"water", "water">>, <<"lake", "water">>, <<"river", "water">>,
       <<"pond", "water">>, <<"tree", "tree">>, <<"trees", "tree">>, <<"palm", "tree">>,
       <<"mountain", "mountain">>, <<"mountains", "mountain">>,
       <<"pyramid", "pyramid">>, <<"pyramids", "pyramid">>, <<"statue", "statue">>,
       <<"statues", "statue">>, <<"waterfall", "waterfall">>,
       <<"waterfalls", "waterfall">>, <<"comet", "comet">>, <<"meteor", "comet">>,
       <<"skull", "skull">>, <<"bones", "skull">>, <<"fire", "campfire">>,
       <<"campfire", "campfire">>, <<"tent", "tent">>, <<"camp", "tent">>,
       <<"storm", "storm">>, <<"lightning", "storm">>, <<"creature", "creature">>,
       <<"monster", "creature">>, <<"sentinel", "sentinel">>, <<"gate", "portal">> >>

\* Math.random() draws are given in sixths: a draw d stands for a value in
\* [d/6, (d+1)/6), so Math.floor(r * 3) = d \div 2, Math.floor(r * 2) = d \div 3
\* and Math.floor(r * 6) = d.  The k-th draw of a call is rnd[k], the draws
\* repeating after Len(rnd).
Draws == 0..5
draw(rnd, k) == rnd[((k - 1) % Len(rnd)) + 1]

hasType(entities, type) == \E i \in DOMAIN entities : entities[i].o.type = Str(type)

\* The entries of KEYWORD_MAP from position i on whose keyword the prompt includes.
keywordHits(lower, i) ==
    {j \in i..Len(KEYWORD_MAP) : includes(lower, KEYWORD_MAP[j][1])}

\* The loop without the foundTypes check: one descriptor per keyword found.
RECURSIVE scanEveryKeyword(_, _, _, _)
scanEveryKeyword(lower, rnd, i, entities) ==
    LET hits == keywordHits(lower, i)
        j == CHOOSE h \in hits : \A g \in hits : h <= g
    IN  IF hits = {} THEN entities
        ELSE scanEveryKeyword(lower, rnd, j + 1,
                Append(entities,
                       descriptor(Str(KEYWORD_MAP[j][2]),
                              Int10(1 + (draw(rnd, Len(entities) + 1) \div 2)))))

\* for (const [keyword, entityType] of Object.entries(KEYWORD_MAP)) {...}:
\* the loop from entry i on; entries whose keyword is absent change nothing.
RECURSIVE scanKeywords(_, _, _, _)
scanKeywords(lower, rnd, i, entities) ==
    LET hits == keywordHits(lower, i)
        j == CHOOSE h \in hits : \A g \in hits : h <= g
    IN  IF hits = {} THEN entities
        ELSE IF ~hasType(entities, KEYWORD_MAP[j][2])
        THEN scanKeywords(lower, rnd, j + 1,
                Append(entities,
                       descriptor(Str(KEYWORD_MAP[j][2]),
                              Int10(1 + (draw(rnd, Len(entities) + 1) \div 2)))))
        ELSE scanKeywords(lower, rnd, j + 1, entities)

randomTypes == <<"rocks", "cacti", "mirage", "crystal", "flora", "dune">>

\* for (let i = 0; i < count; i++) {...}: k draws have been used so far.
RECURSIVE randomLandscape(_, _, _, _)
randomLandscape(rnd, left, k, entities) ==
    IF left = 0 THEN entities
    ELSE LET type == randomTypes[draw(rnd, k + 1) + 1]
         IN  IF hasType(entities, type) THEN randomLandscape(rnd, left - 1, k + 1, entities)
             ELSE randomLandscape(rnd, left - 1, k + 2,
                     Append(entities,
                            descriptor(Str(type), Int10(1 + (draw(rnd, k + 2) \div 3)))))

\* localGenerateFromPrompt without the random-landscape branch.
localGenerateKeywordsOnly(prompt, rnd) ==
    Obj([summary |-> Str("Paisaje generado localmente"),
         entities |-> Arr(scanKeywords(toLowerCase(prompt), rnd, 1, <<>>))])

\* function localGenerateFromPrompt(prompt)
localGenerateFromPrompt(prompt, rnd) ==
    LET found == scanKeywords(toLowerCase(prompt), rnd, 1, <<>>)
        entities == IF Len(found) = 0
                    THEN randomLandscape(rnd, 2 + (draw(rnd, 1) \div 2), 1, <<>>)
                    ELSE found
    IN  Obj([summary |-> Str("Paisaje generado localmente"), entities |-> Arr(entities)])

(***************************************************************************)
(* The world's exported API, called directly (world.js 1076-1083)          *)
(***************************************************************************)
MaxRegistered == 124

idleUi == [isLoading |-> FALSE, status |-> "", log |-> <<>>, error |-> ""]
idleSub ==
    [pc |-> "idle", prompt |-> "", n |-> 0, before |-> 0, cause |-> "none",
     usedLocalFallback |-> FALSE, plan |-> Null, local |-> Null, applied |-> 0,
     payload |-> Undef, requests |-> 0, timer |-> "none", inFlight |-> 0]
idleNorm == [fn |-> "none"]

TagCollections ==
    { SetOf(<<Str("oasis")>>),
      SetOf(<<Str("crystals"), Str("storm"), Str("sentinels")>>),
      SetOf(<<Str("bogus")>>),
      SetOf(<<Str("cacti"), Str("rocks"), Str("oasis"), Str("ruins"), Str("crystals"),
              Str("mirage"), Str("fireflies"), Str("totems"), Str("creatures"),
              Str("nomads"), Str("structures"), Str("storm"), Str("flora"),
              Str("portals"), Str("sentinels")>>),
      Arr(<<Str("cacti"), Str("cacti"), Str("rocks"), Str("cacti")>>),
      Arr(<<Str("Oasis"), Int10(7)>>),
      Arr(<<Str("bogus"), Str("cacti"), Str("bogus")>>),
      Arr(<<>>) }

EntityLists ==
    { Arr(<<descriptor(Str("tree"), Int10(3))>>),
      Arr(<<descriptor(Str("Tower"), Int10(999))>>),
      Arr(<<descriptor(Str("rock"), Str("abc"))>>),
      Arr(<<descriptor(Str("crystal"), Num(25))>>),
      Arr(<<descriptor(Str("portal"), Str(" 4 "))>>),
      Arr(<<descriptor(Str("dune"), Int10(0)), Null, descriptor(Str("storm"), Int10(-3))>>),
      Arr(<<Obj([type |-> Str("oasis")]), descriptor(Str("bridge"), Infinity)>>),
      Arr(<<descriptor(Str("human"), Int10(2))>>),
      Arr(<<descriptor(Str("rocks"), Int10(2)), descriptor(Str("cacti"), Int10(2))>>),
      Arr(<<descriptor(Int10(5), Int10(2)), Str("tree")>>),
      Arr(<<>>) }

Plans ==
    { Obj([tags |-> SetOf(<<Str("oasis"), Str("flora")>>),
           entities |-> Arr(<<descriptor(Str("tree"), Int10(2))>>)]),
      Obj([tags |-> Arr(<<Str("ruins"), Str("ruins")>>), entities |-> Arr(<<>>)]),
      Obj([tags |-> SetOf(<<>>),
           entities |-> Arr(<<descriptor(Str("monolith"), Int10(8)), descriptor(Str("wolf"), Int10(1))>>)]),
      Obj([tags |-> Str("oasis"), entities |-> Str("tree")]),
      Obj([entities |-> Arr(<<descriptor(Str("temple"), Int10(1))>>)]),
      Undef }

InitWorld ==
    /\ promptObjects = baseline.promptObjects
    /\ promptGroup = baseline.promptGroup
    /\ disposed = baseline.disposed
    /\ evicted = baseline.evicted
    /\ registered = baseline.registered
    /\ regLog = baseline.log
    /\ call = [api |-> "createWorld"]
    /\ scene = constructedScene

InitPool == InitWorld /\ ui = idleUi /\ sub = idleSub /\ norm = idleNorm

\* The world variables after a handler that left the pool as w.
WorldBecomes(w) ==
    /\ promptObjects' = w.promptObjects
    /\ promptGroup' = w.promptGroup
    /\ disposed' = w.disposed
    /\ evicted' = w.evicted
    /\ registered' = w.registered
    /\ regLog' = w.log

CallSpawnFromTags ==
    \E tags \in TagCollections :
        /\ registered < MaxRegistered
        /\ WorldBecomes(spawnFromTags(World, tags))
        /\ call' = [api |-> "spawnFromTags", arg |-> tags]
        /\ UNCHANGED <<ui, sub, norm, scene>>

CallSpawnFromEntities ==
    \E entities \in EntityLists \cup {Undef} :
        /\ registered < MaxRegistered
        /\ WorldBecomes(spawnFromEntities(World, entities))
        /\ call' = [api |-> "spawnFromEntities", arg |-> entities]
        /\ UNCHANGED <<ui, sub, norm, scene>>

CallApplyPromptPlan ==
    \E plan \in Plans \cup {Obj([tags |-> c]) : c \in TagCollections} :
        /\ registered < MaxRegistered
        /\ WorldBecomes(applyPromptPlan(World, plan))
        /\ call' = [api |-> "applyPromptPlan", arg |-> plan]
        /\ UNCHANGED <<ui, sub, norm, scene>>

NextPool == CallSpawnFromTags \/ CallSpawnFromEntities \/ CallApplyPromptPlan

SpecPool == InitPool /\ [][NextPool]_vars

(***************************************************************************)
(* Claims about the pool                                                   *)
(***************************************************************************)
idsFromTo(a, b) == [i \in 1..(b - a + 1) |-> a + i - 1]

\* C1: whenever a register call has returned, the pool holds at most
\* MAX_PROMPT_OBJECTS objects: in every state between handlers, and after
\* every single register call inside the latest handler.
C1_PoolBounded ==
    /\ Len(promptObjects) <= MAX_PROMPT_OBJECTS
    /\ \A i \in DOMAIN regLog : regLog[i].size <= MAX_PROMPT_OBJECTS

\* More registrations than the capacity have been made and the pool is full.
C1_Witness ==
    /\ registered > MAX_PROMPT_OBJECTS
    /\ Len(promptObjects) = MAX_PROMPT_OBJECTS
    /\ \E i \in DOMAIN regLog : regLog[i].stale # 0

\* C2: after N+k registrations (k > 0) the pool holds exactly the N latest
\* objects, the evicted and disposed ones are exactly the k earliest in
\* registration order, and each overflowing register call evicted exactly
\* the oldest object then pooled.
C2_FifoEviction ==
    registered > MAX_PROMPT_OBJECTS =>
        /\ Len(promptObjects) = MAX_PROMPT_OBJECTS
        /\ promptObjects = idsFromTo(registered - MAX_PROMPT_OBJECTS + 1, registered)
        /\ evicted = idsFromTo(1, registered - MAX_PROMPT_OBJECTS)
        /\ disposed = {evicted[i] : i \in DOMAIN evicted}
        /\ \A i \in DOMAIN regLog :
              regLog[i].stale = IF regLog[i].object > MAX_PROMPT_OBJECTS
                                THEN regLog[i].object - MAX_PROMPT_OBJECTS ELSE 0

\* Several objects were evicted, by a handler that overflowed more than once.
C2_Witness ==
    /\ registered >= MAX_PROMPT_OBJECTS + 3
    /\ Len(evicted) >= 3
    /\ Cardinality({i \in DOMAIN regLog : regLog[i].stale # 0}) >= 2

(***************************************************************************)
(* Claims about the spawn resolver                                         *)
(***************************************************************************)
\* export const TAG_SPAWNERS (the spawners module's table of tag capabilities)
TAG_SPAWNERS ==
    [cacti |-> "spawnCacti", rocks |-> "spawnRocks", oasis |-> "spawnOasis",
     ruins |-> "spawnRuins", crystals |-> "spawnCrystals", mirage |-> "spawnMirage",
     fireflies |-> "spawnFireflies", totems |-> "spawnTotems",
     creatures |-> "spawnCreatures", nomads |-> "spawnNomads",
     structures |-> "spawnStructures", storm |-> "spawnStorm", flora |-> "spawnFlora",
     portals |-> "spawnPortals", sentinels |-> "spawnSentinels"]

hasTagCapability(tag) == tag.t = "str" /\ tag.s \in DOMAIN TAG_SPAWNERS

instructionFactories == {ENTITY_SPAWNERS[k] : k \in DOMAIN ENTITY_SPAWNERS}

\* The register calls of the latest handler made for tags.
tagRegistrations == {i \in DOMAIN regLog : regLog[i].kind \notin instructionFactories}

planTags == PropOpt(call.arg, "tags")
planTagMembers ==
    IF isSet(planTags) THEN {planTags.items[i] : i \in DOMAIN planTags.items}
    ELSE IF isArray(planTags) THEN {planTags.a[i] : i \in DOMAIN planTags.a}
    ELSE {}

\* C8: applyPromptPlan registers exactly one object per distinct member of
\* the plan's tag collection (a Set, or an array whose duplicates collapse):
\* the capability of TAG_SPAWNERS for a tag that has one, the mirage
\* capability for any other tag.
C8_OnePerDistinctTag ==
    call.api = "applyPromptPlan" =>
        /\ Cardinality(tagRegistrations) = Cardinality(planTagMembers)
        /\ \A k \in {regLog[i].kind : i \in tagRegistrations} \cup {"spawnMirage"} :
              Cardinality({i \in tagRegistrations : regLog[i].kind = k})
                = Cardinality({tag \in planTagMembers :
                                 k = IF hasTagCapability(tag) THEN TAG_SPAWNERS[tag.s]
                                     ELSE "spawnMirage"})

\* A plan whose tag array repeats a tag that has no capability of its own.
C8_Witness ==
    /\ call.api = "applyPromptPlan"
    /\ isArray(planTags)
    /\ Len(planTags.a) > Cardinality(planTagMembers)
    /\ \E tag \in planTagMembers : ~hasTagCapability(tag)
    /\ \E tag \in planTagMembers : hasTagCapability(tag)
    /\ \E i \in tagRegistrations : regLog[i].kind = "spawnMirage"

isDescriptor(x) == x.t = "obj"

RECURSIVE sumQuantities(_)
sumQuantities(items) ==
    IF items = <<>> THEN 0
    ELSE (IF isDescriptor(Head(items))
          THEN clampInstructionQuantity(Prop(Head(items), "quantity")) ELSE 0)
         + sumQuantities(Tail(items))

\* C7: spawnFromEntities registers, for every entity descriptor of the list,
\* exactly q objects, q being the quantity rounded and clamped into [1,8]
\* (1 when it is no finite number), whatever the descriptor's type: a type
\* without a capability of its own is rendered too.
C7_EveryDescriptorRendered ==
    (call.api = "spawnFromEntities" /\ isArray(call.arg)) =>
        Len(regLog) = sumQuantities(call.arg.a)

\* What the code does: only the descriptors whose lower-cased type is a key
\* of ENTITY_SPAWNERS are rendered, each exactly q times; the others are skipped.
RECURSIVE sumKnownQuantities(_)
sumKnownQuantities(items) ==
    IF items = <<>> THEN 0
    ELSE (IF /\ isDescriptor(Head(items))
             /\ Prop(Head(items), "type").t = "str"
             /\ \E k \in DOMAIN ENTITY_SPAWNERS :
                   k = toLowerCase(Prop(Head(items), "type").s)
          THEN clampInstructionQuantity(Prop(Head(items), "quantity")) ELSE 0)
         + sumKnownQuantities(Tail(items))

\* The resolver as coded: exactly q objects for each descriptor of a known type.
C7_KnownTypesRendered ==
    (call.api = "spawnFromEntities" /\ isArray(call.arg)) =>
        Len(regLog) = sumKnownQuantities(call.arg.a)

(***************************************************************************)
(* The backend's sanitizer (src/api/generate.js 338-397, 581-666)          *)
(***************************************************************************)
\* const ENTITY_TYPES = new Set([...]) of the backend
ENTITY_TYPES_api ==
    {"structure", "tower", "tree", "oasis", "water", "crystal", "portal", "fireflies",
     "totem", "rock", "dune", "bridge", "monolith", "flora", "creature", "sentinel",
     "cacti", "ruins", "mirage", "nomad", "storm"}

ENTITY_ALIAS_MAP ==
    [structures |-> "structure", building |-> "structure", buildings |-> "structure",
     towers |-> "tower", trees |-> "tree", cactus |-> "cacti", cactuses |-> "cacti",
     oasis |-> "oasis", waters |-> "water", lakes |-> "water",
     crystals |-> "crystal", portals |-> "portal", gateways |-> "portal",
     firefly |-> "fireflies", fireflies |-> "fireflies", totems |-> "totem",
     rocks |-> "rock", stones |-> "rock", dunes |-> "dune", bridges |-> "bridge",
     monoliths |-> "monolith", florae |-> "flora", plants |-> "flora",
     creatures |-> "creature", sentinels |-> "sentinel", guardians |-> "sentinel",
     ruins |-> "ruins", temples |-> "ruins", mirages |-> "mirage",
     visions |-> "mirage", nomads |-> "nomad", caravans |-> "nomad",
     storms |-> "storm"]

\* a || b
Or(a, b) == IF truthy(a) THEN a ELSE b

\* function normalizeEntityType(value)
normalizeEntityType(value) ==
    IF ~typeofString(value) THEN ""
    ELSE With(trim(toLowerCase(value.s)), LAMBDA clean :
            IF clean \in DOMAIN ENTITY_ALIAS_MAP THEN ENTITY_ALIAS_MAP[clean] ELSE clean)

\* function normalizeSize(value). The first list has a fifth word outside
\* ASCII (a mis-decoded "pequen~o"), which a string of this module cannot hold;
\* the inputs are ASCII, so no input equals it.
normalizeSize(value) ==
    IF ~typeofString(value) THEN ""
    ELSE With(trim(toLowerCase(value.s)), LAMBDA lower :
            IF lower \in {"tiny", "pequeno", "small", "mini"} THEN "small"
            ELSE IF lower \in {"medium", "mediano", "media"} THEN "medium"
            ELSE IF lower \in {"huge", "gigantic", "large", "enorme", "gran", "grande",
                               "massive"} THEN "large"
            ELSE "")

\* function sanitizeColor(value)
sanitizeColor(value) ==
    IF ~typeofString(value) THEN "" ELSE sliceHead(trim(value.s), 24)

\* function parseNumber(value)
parseNumber(value) ==
    IF value.t = "num" THEN value
    ELSE With(IF value.t = "str" THEN stringToNumber(replaceCommas(trim(value.s))) ELSE NaN,
              LAMBDA num : IF isFinite(num) THEN num ELSE Null)

\* if (text) item[key] = text
withString(o, key, text) == IF text # "" THEN withField(o, key, Str(text)) ELSE o

\* A sanitizer that copies a parsed number without clamping it.
withUnclamped(o, key, source, lo, hi) ==
    With(parseNumber(source), LAMBDA n :
        IF typeofNumber(n) THEN withField(o, key, n) ELSE o)

\* const n = parseNumber(source); if (typeof n === "number") item[key] = clampNumber(n, lo, hi)
withClamped(o, key, source, lo, hi) ==
    With(parseNumber(source), LAMBDA n :
        IF typeofNumber(n) THEN withField(o, key, clampNumber(n, lo, hi)) ELSE o)

DimensionFields == <<"floors", "height", "width", "depth", "radius", "length", "thickness">>

\* ["floors", ..., "thickness"].forEach((key) => {...})
RECURSIVE withDimensions(_, _, _)
withDimensions(o, entry, keys) ==
    IF keys = <<>> THEN o
    ELSE withDimensions(
            withClamped(o, Head(keys),
                        Nullish(Prop(entry, Head(keys)),
                                PropOpt(Prop(entry, "attributes"), Head(keys))),
                        1, 4000),
            entry, Tail(keys))

\* const item = { type: normalizedType, quantity }
sanitizedBase(entry, normalizedType) ==
    [type |-> Str(normalizedType),
     quantity |->
        clampNumber(Or(parseNumber(Nullish(Prop(entry, "quantity"),
                                           Nullish(Prop(entry, "count"), Int10(1)))),
                       Int10(1)),
                    10, 100)]

\* size, scale, the three colours, spread and detail of one item
withAttributes(o, entry) ==
    withString(
      withClamped(
        withString(
          withString(
            withString(
              withClamped(withString(o, "size", normalizeSize(Prop(entry, "size"))),
                          "scale", Prop(entry, "scale"), 3, 40),
              "color",
              sanitizeColor(Nullish(Prop(entry, "color"),
                              Nullish(Prop(entry, "tint"),
                                Nullish(Prop(entry, "material"), Prop(entry, "hue")))))),
            "trunkColor",
            sanitizeColor(Nullish(Prop(entry, "trunkColor"), Prop(entry, "barkColor")))),
          "foliageColor",
          sanitizeColor(Nullish(Prop(entry, "foliageColor"),
                          Nullish(Prop(entry, "leafColor"),
                                  Prop(entry, "secondaryColor"))))),
        "spread", Nullish(Prop(entry, "spread"), Prop(entry, "range")), 0, 4000),
      "detail",
      With(Prop(entry, "detail"), LAMBDA detail :
          IF typeofString(detail) THEN sliceHead(trim(detail.s), 200) ELSE ""))

\* One pass of rawEntities.forEach((entry) => {...}) in sanitizeEntities:
\* <<>> when the entry is dropped, <<item>> otherwise.
sanitizeEntity(entry) ==
    IF ~truthy(entry) \/ ~typeofObject(entry) THEN <<>>
    ELSE With(Or(Prop(entry, "entity"),
                Or(Prop(entry, "type"),
                  Or(Prop(entry, "kind"),
                    Or(Prop(entry, "target"), Prop(entry, "label"))))),
              LAMBDA rawType :
         With(IF typeofString(rawType) THEN normalizeEntityType(rawType) ELSE "",
              LAMBDA normalizedType :
                IF normalizedType \notin ENTITY_TYPES_api THEN <<>>
                ELSE <<Obj(withDimensions(
                             withAttributes(sanitizedBase(entry, normalizedType), entry),
                             entry, DimensionFields))>>))

RECURSIVE sanitizeEntitiesFrom(_)
sanitizeEntitiesFrom(list) ==
    IF list = <<>> THEN <<>>
    ELSE sanitizeEntity(Head(list)) \o sanitizeEntitiesFrom(Tail(list))

\* function sanitizeEntities(rawEntities)
sanitizeEntities(rawEntities) ==
    IF ~isArray(rawEntities) THEN Arr(<<>>) ELSE Arr(sanitizeEntitiesFrom(rawEntities.a))

(***************************************************************************)
(* Decoding the model's text (utils: cleanModelOutput, parseAiJson)        *)
(***************************************************************************)
\* A TLA+ string cannot hold the backquote; the apostrophe stands for it in
\* every text below, so a code fence is three apostrophes.
fence == "'''"

LowerLetters ==
    {"a", "b", "c", "d", "e", "f", "g", "h", "i", "j", "k", "l", "m",
     "n", "o", "p", "q", "r", "s", "t", "u", "v", "w", "x", "y", "z"}

\* [a-zA-Z0-9_-]
fenceLabelChar(c) == lowerChar(c) \in LowerLetters \/ digitOf(c) >= 0 \/ c \in {"_", "-"}

RECURSIVE dropFenceLabel(_)
dropFenceLabel(s) ==
    IF s # "" /\ fenceLabelChar(SubSeq(s, 1, 1)) THEN dropFenceLabel(SubSeq(s, 2, Len(s)))
    ELSE s

lastIndexOf(s, c) ==
    IF \E i \in 1..Len(s) : SubSeq(s, i, i) = c
    THEN CHOOSE i \in 1..Len(s) :
            /\ SubSeq(s, i, i) = c
            /\ \A j \in (i + 1)..Len(s) : SubSeq(s, j, j) # c
    ELSE 0

\* s.slice(from - 1, to) for 1-based from and to
sliceRange(s, from, to) == IF to < from THEN "" ELSE SubSeq(s, from, to)

\* cleaned.replace(/^```[a-zA-Z0-9_-]*\s*/, "") and the cut of a closing fence
stripFence(trimmed) ==
    With(trimStart(dropFenceLabel(SubSeq(trimmed, 4, Len(trimmed)))), LAMBDA opened :
        IF endsWith(opened, fence) THEN SubSeq(opened, 1, Len(opened) - 3) ELSE opened)

\* The span from the first "{" to the last "}", when both occur.
braceSpan(cleaned) ==
    With(indexOf(cleaned, "{"), LAMBDA firstBrace :
        With(lastIndexOf(cleaned, "}"), LAMBDA lastBrace :
            IF firstBrace # 0 /\ lastBrace # 0
            THEN sliceRange(cleaned, firstBrace, lastBrace)
            ELSE cleaned))

\* export function cleanModelOutput(text)
cleanModelOutput(text) ==
    IF ~truthy(text) THEN ""
    ELSE With(trim(text.s), LAMBDA trimmed :
            IF startsWith(trimmed, fence) THEN braceSpan(stripFence(trimmed))
            ELSE braceSpan(trimmed))

\* JSON.parse on the texts the backend set below can lead to: the documents
\* listed here are the well-formed ones, every other text is a SyntaxError.
JsonDocuments ==
    { <<"{\"tags\":[\"oasis\"]}", Obj([tags |-> Arr(<<Str("oasis")>>)])>>,
      <<"{\"entities\":[{\"type\":\"tree\",\"quantity\":2}]}",
        Obj([entities |-> Arr(<<descriptor(Str("tree"), Int10(2))>>)])>>,
      <<"{\"tags\":[]}", Obj([tags |-> Arr(<<>>)])>>,
      <<"{\"a\":{}}", Obj([a |-> Obj(<<>>)])>>,
      <<"null", Null>>,
      <<"{}", Obj(<<>>)>>,
      <<"{\"prompt\":\"rocas\"}", Obj([prompt |-> Str("rocas")])>>,
      <<"{\"prompt\":\"   \"}", Obj([prompt |-> Str("   ")])>>,
      <<"{\"prompt\":123}", Obj([prompt |-> Int10(123)])>>,
      <<"{\"summary\":\"Dunas\",\"tags\":[\"Oasis \",\" bogus \",\"oasis\"]}",
        Obj([summary |-> Str("Dunas"),
             tags |-> Arr(<<Str("Oasis "), Str(" bogus "), Str("oasis")>>)])>>,
      <<"{\"tags\":[\"xyz\",42]}", Obj([tags |-> Arr(<<Str("xyz"), Int10(42)>>)])>>,
      <<"{\"tags\":[\"ruins\",null]}", Obj([tags |-> Arr(<<Str("ruins"), Null>>)])>>,
      <<"{\"tags\":\"oasis\"}", Obj([tags |-> Str("oasis")])>> }

JSONparse(text) ==
    IF \E doc \in JsonDocuments : doc[1] = text
    THEN [ok |-> TRUE, value |-> (CHOOSE doc \in JsonDocuments : doc[1] = text)[2]]
    ELSE [ok |-> FALSE, value |-> Undef]

\* export function parseAiJson(rawText): ok is FALSE where the code throws.
parseAiJson(rawText) ==
    With(cleanModelOutput(rawText), LAMBDA clean :
        IF clean = "" THEN [ok |-> FALSE, value |-> Undef] ELSE JSONparse(clean))

(***************************************************************************)
(* The pure functions, applied to inputs drawn from bounded sets           *)
(***************************************************************************)
MaxTokens == 2
MaxCandidates == 2
MaxDraws == 2

seqsUpTo(S, n) == UNION {[1..k -> S] : k \in 0..n}

TagTokens ==
    { Str("oasis"), Str("CRYSTALS"), Str(" bogus "), Str("Templo en ruinas"),
      Str("oasis ruinas cactus"), Str("desierto"), Str("xyz"), Str(""), Str("Rocks"),
      Str("guardian del portal"), Null, Int10(42), Bool(TRUE),
      Obj([tag |-> Str("oasis")]), Arr(<<Str("portal"), Null>>) }

Candidates ==
    { Obj([type |-> Str("towers"), quantity |-> Int10(999), height |-> Str("abc")]),
      Obj([type |-> Str("banana"), quantity |-> Int10(2)]),
      Obj([entity |-> Str(" Trees "), count |-> Str("3")]),
      Obj([kind |-> Str("LAKES"), quantity |-> Str("2,5"), radius |-> Str(" 12.5 ")]),
      Obj([type |-> Str("rock"), quantity |-> Int10(0), size |-> Str(" Gigantic "),
           scale |-> Int10(9), color |-> Str("  #ff00aa  "), spread |-> Int10(-5000)]),
      Obj([type |-> Str("crystal"), quantity |-> NaN, scale |-> Infinity,
           width |-> Int10(100000), size |-> Str("small")]),
      Obj([type |-> Str("human"), quantity |-> Num(25), scale |-> Num(1)]),
      Obj([type |-> Str("dune"), color |-> Str("linear-gradient(to right, #ff0, #00f)")]),
      Obj([type |-> Str(" "), quantity |-> Int10(1)]),
      Obj([type |-> Int10(5)]),
      Obj([label |-> Str("tree")]),
      Null,
      Str("tree") }

RawEntries ==
    { Obj([type |-> Str("towers"), quantity |-> Int10(999), height |-> Str("abc")]),
      Obj([type |-> Str("banana"), quantity |-> Int10(2)]),
      Obj([entity |-> Str(" Trees "), count |-> Str("3"), tint |-> Str("  #0f0 "),
           attributes |-> Obj([height |-> Int10(5000)])]),
      Obj([kind |-> Str("LAKES"), quantity |-> Str("2,5"), radius |-> Str(" 12.5 "),
           range |-> Int10(-7)]),
      Obj([type |-> Str("rock"), quantity |-> Int10(0), size |-> Str(" Gigantic "),
           scale |-> Str("9"), color |-> Str("linear-gradient(red, to blue)"),
           spread |-> Int10(-5000), thickness |-> Int10(0)]),
      Obj([type |-> Str("crystal"), quantity |-> NaN, scale |-> Infinity,
           width |-> Int10(100000), size |-> Str("bogus")]),
      Obj([label |-> Str("storm"), scale |-> Str(""), depth |-> Str("-3"),
           detail |-> Str("  big  ")]),
      Obj([type |-> Str("human"), quantity |-> Int10(2)]),
      Obj([type |-> Int10(5), target |-> Str("dune")]),
      Null,
      Str("tree") }

\* What a model puts around its JSON object: prose, an opening code fence
\* with or without a language label, a closing fence.
Leads == {"", "  ", "'''", "'''json\n", "'''JSON ", "Claro:\n", "Claro:\n'''json\n"}
Trails == {"", "\n", "'''", "\n'''", "\n'''\n", " listo", "\n'''\nlisto"}
ObjectTexts == {"{\"tags\":[\"oasis\"]}", "{\"tags\":[]}", "{\"a\":{}}"}

\* Descriptors as spawnFromEntities hands them to instructionDistanceRange:
\* size, scale and spread absent, in range, out of range or of another type.
PlacementSpecs ==
    {Obj([type |-> Str("tree"), size |-> size, scale |-> scale, spread |-> spread]) :
        size \in {Undef, Str("small"), Str("HUGE"), Str("colossal"), Str("bogus"), Int10(5)},
        scale \in {Undef, Num(1), Num(4), Int10(1), Num(25), Int10(4), Int10(9), NaN,
                   Infinity, Str("2")},
        spread \in {Undef, Null, Int10(-5000), Int10(-50), Int10(0), Int10(30), Int10(400),
                    Int10(100000), NaN, Infinity, Str("abc"), Str("50"), Str("-Infinity")}}

Prompts ==
    { "un oasis con cristales", "rocas", "hola", "Torre y PALMERA junto al rio",
      "a storm over the pyramids", "42" }

NormInputs ==
    {[fn |-> "input", of |-> "normalizeTags", input |-> Arr(tokens)] :
        tokens \in seqsUpTo(TagTokens, MaxTokens)}
    \cup {[fn |-> "input", of |-> "normalizeEntities", input |-> list] :
        list \in {Arr(c) : c \in seqsUpTo(Candidates, MaxCandidates)} \cup {Undef, Str("tree")}}
    \cup {[fn |-> "input", of |-> "sanitizeEntities", input |-> list] :
        list \in {Arr(c) : c \in seqsUpTo(RawEntries, MaxCandidates)} \cup {Undef, Str("tree")}}
    \cup {[fn |-> "input", of |-> "cleanModelOutput", input |-> Str(lead \o doc \o trail),
            doc |-> doc] :
        lead \in Leads, doc \in ObjectTexts \cup {"", "not json"}, trail \in Trails}
    \cup {[fn |-> "input", of |-> "instructionDistanceRange", input |-> spec] :
        spec \in PlacementSpecs}
    \cup {[fn |-> "input", of |-> "localGenerateFromPrompt", prompt |-> prompt, rnd |-> rnd] :
        prompt \in Prompts, rnd \in [1..MaxDraws -> Draws]}

ApplyNormalizeTags ==
    /\ norm.fn = "input" /\ norm.of = "normalizeTags"
    /\ norm' = [fn |-> "normalizeTags", input |-> norm.input,
                output |-> normalizeTags(norm.input)]
    /\ UNCHANGED <<promptObjects, promptGroup, disposed, evicted, registered,
                   regLog, call, ui, sub, scene>>

ApplyNormalizeEntities ==
    /\ norm.fn = "input" /\ norm.of = "normalizeEntities"
    /\ norm' = [fn |-> "normalizeEntities", input |-> norm.input,
                output |-> normalizeEntities(norm.input)]
    /\ UNCHANGED <<promptObjects, promptGroup, disposed, evicted, registered,
                   regLog, call, ui, sub, scene>>

ApplyLocalGenerate ==
    /\ norm.fn = "input" /\ norm.of = "localGenerateFromPrompt"
    /\ norm' = [fn |-> "localGenerateFromPrompt", input |-> norm.prompt, rnd |-> norm.rnd,
                output |-> localGenerateFromPrompt(norm.prompt, norm.rnd)]
    /\ UNCHANGED <<promptObjects, promptGroup, disposed, evicted, registered,
                   regLog, call, ui, sub, scene>>

ApplyCleanModelOutput ==
    /\ norm.fn = "input" /\ norm.of = "cleanModelOutput"
    /\ norm' = [fn |-> "cleanModelOutput", input |-> norm.input, doc |-> norm.doc,
                output |-> cleanModelOutput(norm.input)]
    /\ UNCHANGED <<promptObjects, promptGroup, disposed, evicted, registered,
                   regLog, call, ui, sub, scene>>

\* const [minDist, maxDist] = instructionDistanceRange(entity) and the
\* distances randomAroundCamera(minDist, maxDist) can sample.
ApplyInstructionDistanceRange ==
    /\ norm.fn = "input" /\ norm.of = "instructionDistanceRange"
    /\ \E range \in {instructionDistanceRange(norm.input)} :
          norm' = [fn |-> "instructionDistanceRange", input |-> norm.input,
                   output |-> range,
                   distances |-> {sampledDistance(range, d) : d \in Draws}]
    /\ UNCHANGED <<promptObjects, promptGroup, disposed, evicted, registered,
                   regLog, call, ui, sub, scene>>

ApplySanitizeEntities ==
    /\ norm.fn = "input" /\ norm.of = "sanitizeEntities"
    /\ norm' = [fn |-> "sanitizeEntities", input |-> norm.input,
                output |-> sanitizeEntities(norm.input)]
    /\ UNCHANGED <<promptObjects, promptGroup, disposed, evicted, registered,
                   regLog, call, ui, sub, scene>>

\* A normalized result is handed to the normalizer that produced it once
\* more: the tags as the array of the set's members, the descriptors as they are.
Renormalize ==
    /\ norm.fn \in {"normalizeTags", "normalizeEntities", "sanitizeEntities"}
    /\ "pass" \notin DOMAIN norm
    /\ \E again \in {IF norm.fn = "normalizeTags" THEN Arr(norm.output.items)
                      ELSE norm.output} :
          norm' = [fn |-> norm.fn, input |-> again, pass |-> 2,
                   output |-> CASE norm.fn = "normalizeTags" -> normalizeTags(again)
                                [] norm.fn = "normalizeEntities" -> normalizeEntities(again)
                                [] OTHER -> sanitizeEntities(again)]
    /\ UNCHANGED <<promptObjects, promptGroup, disposed, evicted, registered,
                   regLog, call, ui, sub, scene>>

InitNorm == InitWorld /\ ui = idleUi /\ sub = idleSub /\ norm \in NormInputs

NextNorm ==
    \/ ApplyNormalizeTags
    \/ ApplyNormalizeEntities
    \/ ApplyLocalGenerate
    \/ ApplySanitizeEntities
    \/ ApplyCleanModelOutput
    \/ ApplyInstructionDistanceRange
    \/ Renormalize

SpecNorm == InitNorm /\ [][NextNorm]_vars

(***************************************************************************)
(* Claims about the fallback generator and the normalizers                 *)
(***************************************************************************)
keywordOccurs(prompt) ==
    \E i \in DOMAIN KEYWORD_MAP : includes(toLowerCase(prompt), KEYWORD_MAP[i][1])

\* C5: for every prompt, localGenerateFromPrompt returns a plan that holds
\* at least one entity descriptor, when a keyword occurs in the prompt and
\* when none does.
C5_FallbackNonEmpty ==
    norm.fn = "localGenerateFromPrompt" =>
        /\ isArray(Prop(norm.output, "entities"))
        /\ Len(Prop(norm.output, "entities").a) >= 1
        /\ \A i \in DOMAIN Prop(norm.output, "entities").a :
              Prop(norm.output, "entities").a[i].t = "obj"

\* The random-landscape branch ran: no keyword occurs in the prompt.
C5_Witness ==
    /\ norm.fn = "localGenerateFromPrompt"
    /\ ~keywordOccurs(norm.input)
    /\ Len(Prop(norm.output, "entities").a) >= 2

\* C6: every entity type of a fallback plan is a member of ENTITY_TYPES, the
\* canonical vocabulary.
C6_FallbackTypesCanonical ==
    norm.fn = "localGenerateFromPrompt" =>
        \A i \in DOMAIN Prop(norm.output, "entities").a :
            Prop(norm.output, "entities").a[i].o.type.s \in ENTITY_TYPES

unmatchedToken(tag) ==
    \/ ~truthy(tag)
    \/ /\ trim(toLowerCase(toStringJS(tag))) \notin ALLOWED_TAGS
       /\ \A i \in DOMAIN TagHeuristics : \A f \in TagHeuristics[i].frags :
             ~includes(trim(toLowerCase(toStringJS(tag))), f)

\* C9: normalizeTags returns a set of members of ALLOWED_TAGS, with at most
\* one tag per input token, and nothing for a token that matches neither the
\* vocabulary nor a fragment.
C9_TagsWithinVocabulary ==
    norm.fn = "normalizeTags" =>
        /\ isSet(norm.output)
        /\ \A i \in DOMAIN norm.output.items :
              /\ norm.output.items[i].t = "str"
              /\ norm.output.items[i].s \in ALLOWED_TAGS
        /\ Len(norm.output.items)
              <= Cardinality({i \in DOMAIN norm.input.a : ~unmatchedToken(norm.input.a[i])})

\* A token that several fragments match next to a token nothing matches.
C9_Witness ==
    /\ norm.fn = "normalizeTags"
    /\ norm.input = Arr(<<Str("oasis ruinas cactus"), Str(" bogus ")>>)
    /\ norm.output = SetOf(<<Str("oasis")>>)

\* C10: every descriptor normalizeEntities returns has a type of ENTITY_TYPES.
C10_TypesCanonical ==
    norm.fn = "normalizeEntities" =>
        \A i \in DOMAIN norm.output.a :
            /\ Prop(norm.output.a[i], "type").t = "str"
            /\ Prop(norm.output.a[i], "type").s \in ENTITY_TYPES

(***************************************************************************)
(* Prompt handling (main module handlePrompt, ui.js submit listener)       *)
(***************************************************************************)
MAX_LOG_ITEMS == 6
MaxSubmissions == 2

RECURSIVE join(_, _)
join(strings, sep) ==
    IF Len(strings) = 0 THEN ""
    ELSE IF Len(strings) = 1 THEN strings[1]
    ELSE strings[1] \o sep \o join(Tail(strings), sep)

\* ui.setStatus(message)
setStatus(u, message) == [u EXCEPT !.status = message]

\* ui.setLoading(loading)
setLoading(u, loading) == [u EXCEPT !.isLoading = loading]

\* pushPromptLog whose loop removes promptLog.firstChild.
pushRemovesFirst(u, prompt, summary) ==
    LET meta == IF summary = "" THEN "Accion generada" ELSE summary
        grown == <<[main |-> prompt, meta |-> meta]>> \o u.log
    IN  [u EXCEPT !.log = SubSeq(grown, Max(1, Len(grown) - MAX_LOG_ITEMS + 1), Len(grown))]

\* ui.pushPromptLog(prompt, summary)
pushPromptLog(u, prompt, summary) ==
    LET meta == IF summary = "" THEN "Accion generada" ELSE summary
        grown == <<[main |-> prompt, meta |-> meta]>> \o u.log
    IN  [u EXCEPT !.log = SubSeq(grown, 1, Min(Len(grown), MAX_LOG_ITEMS))]

\* The state of handlePrompt's locals when the try block throws.
thrown(cause, tags) ==
    [threw |-> TRUE, cause |-> cause, tags |-> tags, entities |-> Arr(<<>>), summary |-> ""]

\* A try block that keeps the provided summary and derives none.
summaryProvidedOnly(candidateSummary, tags, entitiesPlan) == candidateSummary

\* summary = candidateSummary || tag labels joined || entity types joined
summaryOf(candidateSummary, tags, entitiesPlan) ==
    IF candidateSummary # "" THEN candidateSummary
    ELSE With(join([i \in DOMAIN tags.items |-> tagLabel(tags.items[i])], " · "),
              LAMBDA labels :
                IF labels # "" THEN labels
                ELSE join([i \in DOMAIN entitiesPlan.a |-> entitiesPlan.a[i].o.type.s], " · "))

\* The try block from the extract calls to its end, for the parsed document.
readParsed(parsed) ==
    With(normalizeTags(extractTags(parsed)), LAMBDA tags :
        With(normalizeEntities(extractEntities(parsed)), LAMBDA entitiesPlan :
            IF Len(tags.items) = 0 /\ Len(entitiesPlan.a) = 0
            THEN thrown("EmptyPlan", tags)
            ELSE [threw |-> FALSE, cause |-> "none", tags |-> tags,
                  entities |-> entitiesPlan,
                  summary |-> summaryOf(extractSummary(parsed).s, tags, entitiesPlan)]))

\* The try block from `if (payload.error)` to its end, for a decoded body.
readPayload(payload) ==
    IF payload.t \in {"undef", "null"} THEN thrown("TypeError", SetOf(<<>>))
    ELSE IF truthy(Prop(payload, "error")) THEN thrown("ErrorField", SetOf(<<>>))
    ELSE IF ~typeofString(payload) THEN readParsed(payload)
    ELSE With(parseAiJson(payload), LAMBDA doc :
            IF doc.ok THEN readParsed(doc.value)
            ELSE thrown("MalformedResponse", SetOf(<<>>)))

\* The catch block that only logs the error and keeps the locals as they are.
catchOnlyLogs(prompt, attempt, rnd) ==
    [tags |-> attempt.tags, entities |-> attempt.entities, summary |-> attempt.summary,
     usedLocalFallback |-> FALSE, local |-> Null, requests |-> 0]

\* A catch block that sends the request once more before it falls back.
catchRetries(prompt, attempt, rnd) ==
    With(localGenerateFromPrompt(prompt, rnd), LAMBDA local :
        [tags |-> attempt.tags, entities |-> Prop(local, "entities"),
         summary |-> Prop(local, "summary").s, usedLocalFallback |-> TRUE, local |-> local,
         requests |-> 1])

\* catch (error) { ... }: the local plan replaces entities and summary;
\* requests is the number of fetchWithTimeout calls the block makes.
catchBlock(prompt, attempt, rnd) ==
    With(localGenerateFromPrompt(prompt, rnd), LAMBDA local :
        [tags |-> attempt.tags, entities |-> Prop(local, "entities"),
         summary |-> Prop(local, "summary").s, usedLocalFallback |-> TRUE, local |-> local,
         requests |-> 0])

\* handlePrompt once the try block has ended as `attempt`: catch if it threw,
\* then setLoading(false), applyPromptPlan, pushPromptLog and setStatus.
\* payload is the decoded body, undefined when the try block ended before it.
Finish(attempt, rnd, payload) ==
    \E locals \in {IF attempt.threw THEN catchBlock(sub.prompt, attempt, rnd)
                   ELSE [tags |-> attempt.tags, entities |-> attempt.entities,
                         summary |-> attempt.summary, usedLocalFallback |-> FALSE,
                         local |-> Null, requests |-> 0]} :
      \E plan \in {Obj([tags |-> locals.tags, entities |-> locals.entities])} :
        \E w \in {applyPromptPlan(World, plan)} :
            /\ WorldBecomes(w)
            /\ call' = [api |-> "applyPromptPlan", arg |-> plan]
            /\ ui' = setStatus(
                        pushPromptLog(setLoading(ui, FALSE), sub.prompt,
                            locals.summary
                                \o (IF locals.usedLocalFallback THEN " (local)" ELSE "")),
                        IF locals.usedLocalFallback
                        THEN "Generado localmente (IA no disponible)"
                        ELSE "Paisaje actualizado")
            /\ sub' = [sub EXCEPT !.pc = "done", !.cause = attempt.cause,
                                  !.usedLocalFallback = locals.usedLocalFallback,
                                  !.plan = plan, !.local = locals.local,
                                  !.applied = sub.applied + 1, !.payload = payload,
                                  !.requests = sub.requests + locals.requests,
                                  !.timer = "cleared", !.inFlight = @ - 1]
            /\ UNCHANGED <<norm, scene>>

\* The draws Math.random() returns to one run of the catch block; a run that
\* does not throw draws nothing.
drawsFor(attempt) == IF attempt.threw THEN [1..MaxDraws -> Draws] ELSE {<<0>>}

InputValues == {"rocas", "  hola ", "un oasis con cristales", "   ", ""}

Payloads ==
    { Obj([tags |-> Arr(<<Str("CRYSTALS"), Str(" bogus ")>>), summary |-> Str(" Cristales ")]),
      Obj([tags |-> Arr(<<>>), entities |-> Arr(<<>>)]),
      Obj([error |-> Str("quota exceeded"), tags |-> Arr(<<Str("oasis")>>)]),
      Obj([data |-> Obj([entities |-> Arr(<<
            Obj([type |-> Str("towers"), quantity |-> Int10(999), height |-> Str("abc")])>>)])]),
      Obj([entities |-> Arr(<<descriptor(Str("banana"), Int10(2))>>)]),
      Obj([tags |-> Str("oasis, ruinas\nviento")]),
      Obj([tags |-> Arr(<<Str("xyz")>>), entities |-> Arr(<<Obj([label |-> Str("tree")])>>)]),
      Null,
      Int10(42),
      Str("'''json\n{\"tags\":[\"oasis\"]}\n'''"),
      Str("Claro: {\"entities\":[{\"type\":\"tree\",\"quantity\":2}]} listo"),
      Str("'''\n{\"tags\":[]}"),
      Str("not json"),
      Str("  ") }

\* A submit listener without the isLoading check.
listenerIgnoresLoading(u, raw) == trim(raw) # ""

\* promptForm's submit listener: whether it calls onPrompt for the input's value.
listenerInvokes(u, raw) == ~u.isLoading /\ trim(raw) # ""

\* The form's submit listener, then handlePrompt up to its first await;
\* inFlight counts the handlePrompt calls that have not returned.
Submit ==
    \E raw \in InputValues :
        /\ sub.n < MaxSubmissions
        /\ IF ~listenerInvokes(ui, raw)
           THEN UNCHANGED vars
           ELSE /\ ui' = setLoading(setStatus(ui, "Invocando paisaje..."), TRUE)
                /\ sub' = [pc |-> "fetch", prompt |-> trim(raw), n |-> sub.n + 1,
                           before |-> registered, cause |-> "pending",
                           usedLocalFallback |-> FALSE, plan |-> Null, local |-> Null,
                           applied |-> 0, payload |-> Undef, requests |-> 1,
                           timer |-> "armed", inFlight |-> sub.inFlight + 1]
                /\ UNCHANGED <<promptObjects, promptGroup, disposed, evicted, registered,
                               regLog, call, norm, scene>>

\* await fetchWithTimeout(...): the request is rejected (network error, or the
\* abort of the timer), or a response arrives with or without an OK status.
\* The promise's finally() clears the timer as soon as the fetch settles,
\* that is when the response headers have arrived.
FetchSettles ==
    /\ sub.pc = "fetch"
    /\ \E outcome \in {"network error", "aborted", "not ok", "ok"} :
          CASE outcome = "ok" ->
                  /\ sub' = [sub EXCEPT !.pc = "json", !.timer = "cleared"]
                  /\ UNCHANGED <<promptObjects, promptGroup, disposed, evicted, registered,
                                 regLog, call, ui, norm, scene>>
            [] outcome = "not ok" ->
                  \E rnd \in [1..MaxDraws -> Draws] :
                      Finish(thrown("HttpStatus", SetOf(<<>>)), rnd, Undef)
            [] OTHER ->
                  \E rnd \in [1..MaxDraws -> Draws] :
                      Finish(thrown("BackendUnavailable", SetOf(<<>>)), rnd, Undef)

\* await response.json(): the body is not JSON, or it decodes to a payload.
BodySettles ==
    /\ sub.pc = "json"
    /\ \/ \E rnd \in [1..MaxDraws -> Draws] :
              Finish(thrown("BodyUnreadable", SetOf(<<>>)), rnd, Undef)
       \/ \E payload \in Payloads :
              \E attempt \in {readPayload(payload)} :
                  \E rnd \in drawsFor(attempt) : Finish(attempt, rnd, payload)

\* await response.json() on a connection that delivers no further byte: the
\* promise never settles, and the timer, cleared once the headers arrived,
\* aborts nothing.
BodyStalls ==
    /\ sub.pc = "json"
    /\ sub.timer = "cleared"
    /\ sub' = [sub EXCEPT !.pc = "stalled"]
    /\ UNCHANGED <<promptObjects, promptGroup, disposed, evicted, registered,
                   regLog, call, ui, norm, scene>>

Init == InitWorld /\ ui = idleUi /\ sub = idleSub /\ norm = idleNorm

Next == Submit \/ FetchSettles \/ BodySettles \/ BodyStalls

Spec == Init /\ [][Next]_vars

(***************************************************************************)
(* Claims about prompt handling                                            *)
(***************************************************************************)
\* C3: every submission that has been handled has registered at least one
\* new object in the pool since it was submitted.
C3_SubmissionRegisters ==
    sub.pc = "done" => registered > sub.before

planSize(plan) == Len(Prop(plan, "tags").items) + Len(Prop(plan, "entities").a)

\* C4: a submission whose request fails in any way (rejected or timed out,
\* non-OK status, unreadable body, error field, undecodable text, empty
\* plan) ends with the fallback generator's plan: applyPromptPlan has been
\* called once, with no tags and the entities of the local plan; and every
\* handled submission has called applyPromptPlan exactly once, with a plan
\* of at least one tag or entity, and none before it was handled.
C4_FailureFallsBack ==
    /\ sub.pc \in {"fetch", "json"} => sub.applied = 0 /\ ui.isLoading
    /\ sub.pc = "done" =>
          /\ sub.applied = 1
          /\ call = [api |-> "applyPromptPlan", arg |-> sub.plan]
          /\ ~ui.isLoading
          /\ planSize(sub.plan) >= 1
          /\ sub.cause # "none" =>
                /\ sub.usedLocalFallback
                /\ sub.plan = Obj([tags |-> SetOf(<<>>),
                                   entities |-> Prop(sub.local, "entities")])
                /\ Len(Prop(sub.local, "entities").a) >= 1
          /\ sub.cause = "none" => ~sub.usedLocalFallback

\* The backend answered with a payload that normalizes to an empty plan and
\* the submission ended with the local plan.
C4_Witness ==
    /\ sub.pc = "done"
    /\ sub.cause = "EmptyPlan"
    /\ sub.usedLocalFallback
    /\ sub.applied = 1
    /\ Len(Prop(sub.plan, "entities").a) >= 1

(***************************************************************************)
(* Claims about the numeric fields of normalized descriptors               *)
(***************************************************************************)
\* The dimension fields of a descriptor.
DimensionKeys == {"floors", "height", "width", "depth", "radius", "length"}

\* A number (in tenths) within [lo, hi]; an absent field is within every range.
within(x, lo, hi) == x.t = "undef" \/ (x.t = "num" /\ lo <= x.v /\ x.v <= hi)

\* C11: in every descriptor the client normalizeEntities returns, each numeric
\* field that is present is a finite number within its clamp range: quantity
\* in [1, 8], scale in [0.3, 4], spread in [0, 400] and each dimension in
\* [0.1, 400]; a field that does not parse is absent.
C11_NumericFieldsClamped ==
    norm.fn = "normalizeEntities" =>
        \A i \in DOMAIN norm.output.a :
            /\ within(Prop(norm.output.a[i], "quantity"), 10, 80)
            /\ within(Prop(norm.output.a[i], "scale"), 3, 40)
            /\ within(Prop(norm.output.a[i], "spread"), 0, 4000)
            /\ \A key \in DimensionKeys : within(Prop(norm.output.a[i], key), 1, 4000)

\* The part of C11 the client does keep: quantity and scale are clamped, and a
\* field that does not parse as a number is absent from the descriptor.
C11_QuantityAndScaleClamped ==
    norm.fn = "normalizeEntities" =>
        \A i \in DOMAIN norm.output.a :
            /\ Prop(norm.output.a[i], "quantity").t = "num"
            /\ within(Prop(norm.output.a[i], "quantity"), 10, 80)
            /\ within(Prop(norm.output.a[i], "scale"), 3, 40)
            /\ \A key \in DimensionKeys \cup {"spread"} :
                  Prop(norm.output.a[i], key).t \in {"undef", "num"}

\* The type the backend resolves for an entry: the first truthy of entity,
\* type, kind, target and label, lower-cased, trimmed and de-aliased.
resolvedType(entry) ==
    IF entry.t # "obj" THEN ""
    ELSE normalizeEntityType(
            Or(Prop(entry, "entity"),
              Or(Prop(entry, "type"),
                Or(Prop(entry, "kind"), Or(Prop(entry, "target"), Prop(entry, "label"))))))

\* C12: every item the backend's sanitizeEntities returns has a type of
\* ENTITY_TYPES, a quantity in [1, 10], a scale (if present) in [0.3, 4], a
\* spread (if present) in [0, 400] and every dimension (if present) in
\* [0.1, 400]; and exactly the entries whose type is valid are returned,
\* whatever their numeric fields hold.
C12_SanitizedWithinRanges ==
    norm.fn = "sanitizeEntities" =>
        /\ \A i \in DOMAIN norm.output.a :
              /\ Prop(norm.output.a[i], "type").s \in ENTITY_TYPES_api
              /\ Prop(norm.output.a[i], "quantity").t = "num"
              /\ within(Prop(norm.output.a[i], "quantity"), 10, 100)
              /\ within(Prop(norm.output.a[i], "scale"), 3, 40)
              /\ within(Prop(norm.output.a[i], "spread"), 0, 4000)
              /\ \A key \in DimensionKeys \cup {"thickness"} :
                    within(Prop(norm.output.a[i], key), 1, 4000)
        /\ isArray(norm.input) =>
              Len(norm.output.a)
                 = Cardinality({i \in DOMAIN norm.input.a :
                                  resolvedType(norm.input.a[i]) \in ENTITY_TYPES_api})

\* Out-of-range, unparseable and nested numeric fields on entries of valid type.
C12_Witness ==
    /\ norm.fn = "sanitizeEntities"
    /\ norm.input =
          Arr(<<Obj([type |-> Str("rock"), quantity |-> Int10(0), size |-> Str(" Gigantic "),
                     scale |-> Str("9"), color |-> Str("linear-gradient(red, to blue)"),
                     spread |-> Int10(-5000), thickness |-> Int10(0)]),
                Obj([type |-> Str("towers"), quantity |-> Int10(999),
                     height |-> Str("abc")])>>)
    /\ norm.output =
          Arr(<<Obj([type |-> Str("rock"), quantity |-> Int10(1), size |-> Str("large"),
                     scale |-> Int10(4), color |-> Str("linear-gradient(red, to "),
                     spread |-> Int10(0), thickness |-> Num(1)]),
                Obj([type |-> Str("tower"), quantity |-> Int10(10)])>>)

\* C13: a descriptor returned by entity normalization (the client's
\* normalizeEntities or the backend's sanitizeEntities) has either no size or
\* a size that is one of small, medium, large.
C13_SizeCanonical ==
    norm.fn \in {"normalizeEntities", "sanitizeEntities"} =>
        \A i \in DOMAIN norm.output.a :
            \/ Prop(norm.output.a[i], "size") = Undef
            \/ Prop(norm.output.a[i], "size") \in {Str("small"), Str("medium"), Str("large")}

\* The backend's share of C13: its items carry a size of the three words or none.
C13_BackendSizeCanonical ==
    norm.fn = "sanitizeEntities" =>
        \A i \in DOMAIN norm.output.a :
            \/ Prop(norm.output.a[i], "size") = Undef
            \/ Prop(norm.output.a[i], "size") \in {Str("small"), Str("medium"), Str("large")}

\* C14: normalization is idempotent: a normalizer applied to its own output
\* (pass 2 of Renormalize, whose input is the output of pass 1) returns that
\* output unchanged.
C14_Idempotent ==
    (norm.fn \in {"normalizeTags", "normalizeEntities", "sanitizeEntities"}
        /\ "pass" \in DOMAIN norm) =>
        IF norm.fn = "normalizeTags" THEN norm.output.items = norm.input.a
        ELSE norm.output = norm.input

\* The part of C14 that holds: tags are stable under a second pass.
C14_TagsIdempotent ==
    (norm.fn = "normalizeTags" /\ "pass" \in DOMAIN norm) =>
        norm.output.items = norm.input.a

\* The summary the payload provides: the first defined of summary,
\* result.summary, data.summary and response.summary, trimmed if it is a string.
providedSummary(payload) ==
    With(IF typeofString(payload) THEN parseAiJson(payload).value ELSE payload,
         LAMBDA parsed :
            With(firstDefined(parsed, "summary"), LAMBDA given :
                IF typeofString(given) THEN trim(given.s) ELSE ""))

\* C15: when the remote path ends with a plan of at least one tag or entity,
\* the summary logged for the prompt is non-empty: the provided summary if it
\* is not blank, else the labels of the plan's tags joined, else the types of
\* the plan's entities joined.
C15_SummaryResolved ==
    (sub.pc = "done" /\ ~sub.usedLocalFallback) =>
        /\ planSize(sub.plan) >= 1
        /\ ui.log[1].main = sub.prompt
        /\ ui.log[1].meta # ""
        /\ ui.log[1].meta =
              IF providedSummary(sub.payload) # "" THEN providedSummary(sub.payload)
              ELSE IF Len(Prop(sub.plan, "tags").items) > 0
                   THEN join([i \in DOMAIN Prop(sub.plan, "tags").items |->
                                 tagLabel(Prop(sub.plan, "tags").items[i])], " · ")
                   ELSE join([i \in DOMAIN Prop(sub.plan, "entities").a |->
                                 Prop(Prop(sub.plan, "entities").a[i], "type").s], " · ")

\* A payload without summary and tags whose one entity gives the summary.
C15_Witness ==
    /\ sub.pc = "done" /\ ~sub.usedLocalFallback
    /\ providedSummary(sub.payload) = ""
    /\ Len(Prop(sub.plan, "tags").items) = 0
    /\ ui.log[1].meta = "tower"

(***************************************************************************)
(* Claims about decoding                                                   *)
(***************************************************************************)
\* The trimmed text without its opening fence (with label and the white
\* space after it) and without its closing fence, each removed if present.
fencesStripped(text) ==
    With(trim(text), LAMBDA trimmed :
        With(IF startsWith(trimmed, fence)
             THEN trimStart(dropFenceLabel(SubSeq(trimmed, 4, Len(trimmed))))
             ELSE trimmed,
             LAMBDA opened :
                IF endsWith(opened, fence) THEN SubSeq(opened, 1, Len(opened) - 3)
                ELSE opened))

\* C16: for a text that wraps a JSON object in fences and prose,
\* cleanModelOutput returns the span from the first "{" to the last "}", which
\* is the object and decodes; for a text without such a span it returns the
\* text with only its fences stripped.
C16_CleanedSpan ==
    norm.fn = "cleanModelOutput" =>
        IF norm.doc \in ObjectTexts
        THEN norm.output = norm.doc /\ JSONparse(norm.output).ok
        ELSE norm.output = fencesStripped(norm.input.s)

\* The first half of C16, which holds: a wrapped object is cut out and decodes.
C16_ObjectSpanDecodes ==
    (norm.fn = "cleanModelOutput" /\ norm.doc \in ObjectTexts) =>
        norm.output = norm.doc /\ JSONparse(norm.output).ok

(***************************************************************************)
(* The day-stage selector and the render loop                              *)
(***************************************************************************)
\* What the day selector can hand over: the five stages, unknown words, the
\* empty string, a stage in another case, and names of Object.prototype.
StageIdentifiers ==
    DOMAIN DAY_STAGES
        \cup {"", "mediodia", "Noche", "noche ", "constructor", "toString", "__proto__"}

\* onDayChange: world.setDayStage(stage)
CallSetDayStage ==
    \E stage \in StageIdentifiers :
        /\ scene' = setDayStage(scene, stage)
        /\ call' = [api |-> "setDayStage", arg |-> Str(stage)]
        /\ UNCHANGED <<promptObjects, promptGroup, disposed, evicted, registered,
                       regLog, ui, sub, norm>>

\* function animate(), one requestAnimationFrame callback
Animate ==
    /\ scene' = renderFrame(scene)
    /\ UNCHANGED <<promptObjects, promptGroup, disposed, evicted, registered,
                   regLog, call, ui, sub, norm>>

InitStage == InitWorld /\ ui = idleUi /\ sub = idleSub /\ norm = idleNorm

NextStage == CallSetDayStage \/ Animate

SpecStage == InitStage /\ [][NextStage]_vars

\* C17: after setDayStage with a string that is none of the five stage names,
\* the six atmosphere parameters are exactly those of amanecer.
C17_UnknownStageDefaults ==
    (call.api = "setDayStage" /\ call.arg.s \notin DOMAIN DAY_STAGES) =>
        atmosphereOf(scene) = DAY_STAGES.amanecer

\* The part of C17 that holds: a string that is neither a stage name nor a
\* name inherited from Object.prototype gives the amanecer tuple.
C17_UnknownOwnNameDefaults ==
    (call.api = "setDayStage" /\ call.arg.s \notin DOMAIN DAY_STAGES
        /\ call.arg.s \notin ObjectPrototypeNames) =>
        atmosphereOf(scene) = DAY_STAGES.amanecer

\* C18: every frame rendered after a setDayStage call shows the six
\* atmosphere parameters of one single stage.
C18_FrameOfOneStage ==
    (scene.frame # Null /\ scene.frame.staged) =>
        \E stage \in DOMAIN DAY_STAGES : scene.frame.atmosphere = DAY_STAGES[stage]

\* The part of C18 that holds: as long as the selector has handed over no
\* name inherited from Object.prototype, every frame after a call shows one
\* stage's tuple; no frame falls between the writes of a call.
C18_FrameOfOneStageOwnNames ==
    (scene.frame # Null /\ scene.frame.staged
        /\ scene.frame.atmosphere.fogDensity # Undef) =>
        \E stage \in DOMAIN DAY_STAGES : scene.frame.atmosphere = DAY_STAGES[stage]

\* C19: a submission has issued exactly one request from its start to its
\* end; after a failure the fallback plan is applied without another request.
C19_SingleRequest ==
    /\ sub.pc \in {"fetch", "json", "stalled", "done"} => sub.requests = 1
    /\ (sub.pc = "done" /\ sub.cause # "none") => sub.usedLocalFallback /\ sub.applied = 1

\* A submission that failed on a non-OK status and ended on the fallback.
C19_Witness ==
    /\ sub.pc = "done" /\ sub.cause = "HttpStatus"
    /\ sub.requests = 1 /\ sub.usedLocalFallback

\* C20: as long as a started handlePrompt has no complete response, the
\* timer of its request is armed, so that the expiry of FETCH_TIMEOUT_MS
\* abandons the call, whether the backend has not answered or has sent the
\* headers and stalled; and a call that has ended has applied one plan and
\* cleared the loading flag.
C20_TimeoutCoversResponse ==
    /\ sub.pc \in {"fetch", "json", "stalled"} => sub.timer = "armed"
    /\ sub.pc = "done" => sub.applied = 1 /\ ~ui.isLoading

\* The part of C20 that holds: while the fetch is pending the timer is armed,
\* and a submission that has ended has cleared the loading flag.
C20_TimerArmedWhileFetching ==
    /\ sub.pc = "fetch" => sub.timer = "armed" /\ ui.isLoading
    /\ sub.pc = "done" => ~ui.isLoading /\ sub.applied = 1

(***************************************************************************)
(* Claims about placement                                                  *)
(***************************************************************************)
\* C21: instructionDistanceRange returns [min, max] with 20 <= min <= 240 and
\* min + 10 <= max <= 420, and every distance sampled from it lies in [20, 420].
C21_DistanceWithinLimits ==
    norm.fn = "instructionDistanceRange" =>
        /\ 200 <= norm.output[1] /\ norm.output[1] <= 2400
        /\ norm.output[1] + 100 <= norm.output[2] /\ norm.output[2] <= 4200
        /\ \A distance \in norm.distances : 200 <= distance /\ distance <= 4200

\* A huge entity with a spread far beyond the limit: the maximum is the limit.
C21_Witness ==
    /\ norm.fn = "instructionDistanceRange"
    /\ Prop(norm.input, "spread") = Int10(100000)
    /\ Prop(norm.input, "size") = Str("HUGE")
    /\ Prop(norm.input, "scale") = Undef
    /\ norm.output = <<490, 4200>>

animationTags(kind) ==
    CASE kind \in {"spawnOasis", "spawnInstructionOasis", "spawnInstructionTree",
                   "spawnFlora", "spawnInstructionFlora"} -> {"sway"}
      [] kind \in {"spawnCrystals", "spawnInstructionCrystal"} -> {"pulse"}
      [] kind \in {"spawnMirage", "spawnInstructionMirage"} -> {"float", "pulse"}
      [] OTHER -> {}

\* The animation tags an object may carry: those of its factory where the
\* construction or the latest handler recorded it, any tag otherwise.
animationTagsOf(obj) ==
    LET known == baseline.log \o regLog
        entries == {i \in DOMAIN known : known[i].object = obj}
    IN  IF entries = {} THEN {"sway", "pulse", "float"}
        ELSE UNION {animationTags(known[i].kind) : i \in entries}

\* The tagged subparts of a registered object: <<owner, animationType>>.
animatedSubparts(obj) == {<<obj, tag>> : tag \in animationTagsOf(obj)}

\* The subparts the update pass visits in a frame: the tagged subparts
\* reachable from the children of the prompt group.
updateSet(group) == UNION {animatedSubparts(group[i]) : i \in DOMAIN group}

MaxFlights == 3

\* The pool after the construction and earlier prompts have registered
\* MAX_PROMPT_OBJECTS - 3 objects, none evicted yet.
crowdedPool ==
    [promptObjects |-> [k \in 1..(MAX_PROMPT_OBJECTS - 3) |-> k],
     promptGroup |-> [k \in 1..(MAX_PROMPT_OBJECTS - 3) |-> k],
     disposed |-> {}, evicted |-> <<>>,
     registered |-> MAX_PROMPT_OBJECTS - 3, log |-> <<>>]

\* ui.showError(message)
showError(u, message) == [u EXCEPT !.error = message]

OverlapPayloads ==
    { Obj([tags |-> Arr(<<Str("CRYSTALS"), Str(" bogus ")>>), summary |-> Str(" Cristales ")]),
      Obj([tags |-> Arr(<<>>), entities |-> Arr(<<>>)]),
      Obj([data |-> Obj([entities |-> Arr(<<
            Obj([type |-> Str("towers"), quantity |-> Int10(999), height |-> Str("abc")])>>)])]),
      Obj([tags |-> Arr(<<Str("oasis")>>),
           entities |-> Arr(<<descriptor(Str("tree"), Int10(2))>>)]) }

InitOverlap ==
    /\ promptObjects = crowdedPool.promptObjects
    /\ promptGroup = crowdedPool.promptGroup
    /\ disposed = crowdedPool.disposed
    /\ evicted = crowdedPool.evicted
    /\ registered = crowdedPool.registered
    /\ regLog = crowdedPool.log
    /\ call = [api |-> "createWorld"]
    /\ scene = constructedScene
    /\ ui = idleUi
    /\ sub = [flights |-> <<>>, resumed |-> 0]
    /\ norm = idleNorm

\* The submit listener, then handlePrompt up to `await fetch(...)`.
SubmitOverlapping ==
    \E raw \in InputValues :
        /\ Len(sub.flights) < MaxFlights
        /\ ~ui.isLoading
        /\ trim(raw) # ""
        /\ ui' = setStatus(ui, "Invocando paisaje...")
        /\ sub' = [sub EXCEPT !.flights =
                      Append(@, [pc |-> "fetch", prompt |-> trim(raw), before |-> 0,
                                 count |-> 0, plan |-> Null]),
                              !.resumed = 0]
        /\ UNCHANGED <<promptObjects, promptGroup, disposed, evicted, registered,
                       regLog, call, norm, scene>>

\* catch (error) { console.error; ui.showError(...); return; }
FlightFails(i) ==
    /\ ui' = showError(ui, "Modo IA no disponible. Revisa consola")
    /\ sub' = [sub EXCEPT !.flights[i].pc = "failed", !.resumed = i]
    /\ UNCHANGED <<promptObjects, promptGroup, disposed, evicted, registered,
                   regLog, call, norm, scene>>

\* `await fetch(...)` of one handler settles, whichever handler it is.
ResponseArrives ==
    \E i \in DOMAIN sub.flights :
        /\ sub.flights[i].pc = "fetch"
        /\ \/ FlightFails(i)
           \/ /\ sub' = [sub EXCEPT !.flights[i].pc = "json", !.resumed = i]
              /\ UNCHANGED <<promptObjects, promptGroup, disposed, evicted, registered,
                             regLog, call, ui, norm, scene>>

\* `await response.json()` of one handler settles: the rest of handlePrompt
\* runs without a further await.
BodyArrives ==
    \E i \in DOMAIN sub.flights :
        /\ sub.flights[i].pc = "json"
        /\ \/ FlightFails(i)
           \/ \E payload \in OverlapPayloads :
                \E attempt \in {readParsed(payload)} :
                    IF attempt.threw THEN FlightFails(i)
                    ELSE \E plan \in {Obj([tags |-> attempt.tags,
                                           entities |-> attempt.entities])} :
                           \E w \in {applyPromptPlan(World, plan)} :
                              /\ WorldBecomes(w)
                              /\ call' = [api |-> "applyPromptPlan", arg |-> plan]
                              /\ ui' = setStatus(
                                          pushPromptLog(ui, sub.flights[i].prompt,
                                                        attempt.summary),
                                          "Paisaje actualizado")
                              /\ sub' = [sub EXCEPT
                                            !.flights[i].pc = "done",
                                            !.flights[i].before = registered,
                                            !.flights[i].count = w.registered - registered,
                                            !.flights[i].plan = plan,
                                            !.resumed = i]
                              /\ UNCHANGED <<norm, scene>>

NextOverlap == SubmitOverlapping \/ ResponseArrives \/ BodyArrives

SpecOverlap == InitOverlap /\ [][NextOverlap]_vars

\* The flights whose plan has been applied.
appliedFlights == {i \in DOMAIN sub.flights : sub.flights[i].pc = "done"}

\* C24: with overlapping submissions, the objects a plan registers are one
\* contiguous block of registrations, as many as the plan's tags and
\* descriptors of known types ask for, and the blocks of two plans do not
\* overlap; the pool never holds more than MAX_PROMPT_OBJECTS objects, neither
\* between handlers nor after any single registration; and the objects are
\* evicted in the order of their registration, the pool holding the latest.
C24_PlansApplyWhole ==
    /\ \A i \in appliedFlights :
          sub.flights[i].count =
              Len(sub.flights[i].plan.o.tags.items)
                  + sumKnownQuantities(sub.flights[i].plan.o.entities.a)
    /\ \A i, j \in appliedFlights :
          i # j => \/ sub.flights[i].before + sub.flights[i].count <= sub.flights[j].before
                   \/ sub.flights[j].before + sub.flights[j].count <= sub.flights[i].before
    /\ \A i \in appliedFlights :
          sub.resumed = i /\ sub.flights[i].count > 0 =>
              /\ Len(regLog) = sub.flights[i].count
              /\ \A k \in DOMAIN regLog : regLog[k].object = sub.flights[i].before + k
    /\ Len(promptObjects) <= MAX_PROMPT_OBJECTS
    /\ \A k \in DOMAIN regLog : regLog[k].size <= MAX_PROMPT_OBJECTS
    /\ \A k \in DOMAIN evicted : evicted[k] = k
    /\ \A k \in DOMAIN promptObjects : promptObjects[k] = Len(evicted) + k

\* Two handlers were in flight together and the later submission was applied
\* first; both plans overflowed the pool.
C24_Witness ==
    /\ Len(sub.flights) >= 2
    /\ {1, 2} \subseteq appliedFlights
    /\ sub.flights[2].count > 0
    /\ sub.flights[2].before + sub.flights[2].count <= sub.flights[1].before
    /\ sub.flights[1].count > 1
    /\ Len(evicted) > sub.flights[2].count

(***************************************************************************)
(* The prompt log (ui.js 184-197), pushed to directly                      *)
(***************************************************************************)
MaxPushes == 8

LogPushes ==
    { [prompt |-> "rocas", summary |-> "Cantiles"],
      [prompt |-> "un oasis", summary |-> ""],
      [prompt |-> "rocas", summary |-> "tower"] }

InitLog ==
    /\ InitWorld
    /\ ui = idleUi
    /\ sub = [pushes |-> <<>>]
    /\ norm = idleNorm

CallPushPromptLog ==
    \E push \in LogPushes :
        /\ Len(sub.pushes) < MaxPushes
        /\ ui' = pushPromptLog(ui, push.prompt, push.summary)
        /\ sub' = [pushes |-> Append(sub.pushes, push)]
        /\ UNCHANGED <<promptObjects, promptGroup, disposed, evicted, registered,
                       regLog, call, norm, scene>>

NextLog == CallPushPromptLog

SpecLog == InitLog /\ [][NextLog]_vars

\* C25: the log shows the min(6, n) most recent of the n pushes, newest
\* first, each with its prompt and with its summary or the default text.
C25_LogShowsLatestSix ==
    LET n == Len(sub.pushes)
    IN  /\ Len(ui.log) <= 6
        /\ Len(ui.log) = Min(n, 6)
        /\ \A k \in DOMAIN ui.log :
              /\ ui.log[k].main = sub.pushes[n - k + 1].prompt
              /\ ui.log[k].meta = IF sub.pushes[n - k + 1].summary = ""
                                  THEN "Accion generada"
                                  ELSE sub.pushes[n - k + 1].summary

\* Eight pushes were made: two entries have left the log.
C25_Witness ==
    /\ Len(sub.pushes) = 8
    /\ Len(ui.log) = 6
    /\ ui.log[1].meta = "tower"
    /\ ui.log[6].meta = "Accion generada"
    /\ sub.pushes[1].summary = "Cantiles"

(***************************************************************************)
(* The /api/generate handler (src/api/generate.js 426-562)                 *)
(***************************************************************************)
MaxRequests == 2

\* A request: its method and the text of its body (Undef: the stream fails).
ApiRequests ==
    {[method |-> method, body |-> body] :
        method \in {"OPTIONS", "GET", "POST"},
        body \in {Str("{\"prompt\":\"rocas\"}"), Str("{\"prompt\":\"   \"}"), Str("{}"),
                  Str(""), Str("{\"prompt\":123}"), Str("null"), Str("{prompt"), Undef}}

\* process.env.OPENROUTER_API_KEY
ApiKeys == {Undef, Str(""), Str("sk-or-1")}

\* choices[0].message.content of the upstream's answer.
ModelContents ==
    { Str("'''json\n{\"tags\":[\"oasis\"]}\n'''"),
      Str("{\"summary\":\"Dunas\",\"tags\":[\"Oasis \",\" bogus \",\"oasis\"]}"),
      Str("Claro: {\"tags\":[\"xyz\",42]} listo"),
      Str("{\"tags\":[\"ruins\",null]}"),
      Str("{\"tags\":\"oasis\"}"),
      Str("{\"entities\":[{\"type\":\"tree\",\"quantity\":2}]}"),
      Str("null"), Str("not json"), Str("  "), Undef, Int10(7) }

\* res.status(code).json(body) / res.status(code).end()
respond(h, code, body) == [h EXCEPT !.sent = Append(@, [status |-> code, body |-> body])]

errorBody(message) == Obj([error |-> Str(message)])

\* The handler of one request before any response: nothing sent, no upstream
\* call, not suspended, no exception escaped.
started == [sent |-> <<>>, fetches |-> 0, awaiting |-> FALSE, threw |-> FALSE, prompt |-> ""]

\* handler(req, res) from `const prompt = ...` to the fetch call.
handlerPrompt(h, payload, apiKey) ==
    IF payload.t \in {"undef", "null"} THEN [h EXCEPT !.threw = TRUE]
    ELSE With(Or(Prop(payload, "prompt"), Str("")), LAMBDA value :
            IF ~typeofString(value) THEN [h EXCEPT !.threw = TRUE]
            ELSE IF trim(value.s) = ""
            THEN respond(h, 400, errorBody("prompt requerido"))
            ELSE IF ~truthy(apiKey)
            THEN respond(h, 500, errorBody("Configuracion de servidor incompleta"))
            ELSE [h EXCEPT !.fetches = @ + 1, !.awaiting = TRUE, !.prompt = trim(value.s)])

\* handler(req, res) up to `await fetch(...)`.
handlerStart(req, apiKey) ==
    IF req.method = "OPTIONS" THEN respond(started, 204, Undef)
    ELSE IF req.method # "POST" THEN respond(started, 405, errorBody("Solo POST"))
    ELSE IF req.body.t = "undef"
    THEN respond(started, 500, errorBody("No se pudo leer el body"))
    ELSE With(JSONparse(IF req.body.s = "" THEN "{}" ELSE req.body.s), LAMBDA doc :
            IF ~doc.ok THEN respond(started, 400, errorBody("JSON invalido"))
            ELSE handlerPrompt(started, doc.value, apiKey))

\* The inner try block: summary, tags and entities decoded from raw.
decodeModel(raw) ==
    With(JSONparse(cleanModelOutput(Str(raw))), LAMBDA doc :
        IF ~doc.ok \/ doc.value.t \in {"undef", "null"}
        THEN [summary |-> sliceHead(raw, 200), tags |-> <<>>, entities |-> Arr(<<>>)]
        ELSE [summary |-> IF typeofString(Prop(doc.value, "summary"))
                          THEN Prop(doc.value, "summary").s ELSE "",
              tags |-> IF isArray(Prop(doc.value, "tags"))
                       THEN Prop(doc.value, "tags").a ELSE <<>>,
              entities |-> IF isArray(Prop(doc.value, "entities"))
                           THEN Prop(doc.value, "entities") ELSE Arr(<<>>)])

\* tags.map(...) without the filter: every tag the model returned is kept.
RECURSIVE keepAllTags(_)
keepAllTags(tags) ==
    IF tags = <<>> THEN <<>>
    ELSE <<Str(trim(toLowerCase(toStringJS(Head(tags)))))>> \o keepAllTags(Tail(tags))

\* tags.map((tag) => tag.toString().toLowerCase().trim())
\*     .filter((tag) => ALLOWED_TAGS.has(tag))
RECURSIVE keepAllowedTags(_)
keepAllowedTags(tags) ==
    IF tags = <<>> THEN <<>>
    ELSE With(trim(toLowerCase(toStringJS(Head(tags)))), LAMBDA tag :
            (IF tag \in ALLOWED_TAGS THEN <<Str(tag)>> ELSE <<>>)
                \o keepAllowedTags(Tail(tags)))

\* handler from `const data = await response.json()` to the 200 response;
\* a TypeError (content that is no string, toString of null) goes to the
\* outer catch.
handlerAnswer(h, content) ==
    IF content.t \notin {"undef", "null", "str"}
    THEN respond(h, 500, errorBody("Fallo al contactar el servicio de IA"))
    ELSE With(decodeModel(IF content.t = "str" THEN trim(content.s) ELSE ""), LAMBDA model :
            IF \E i \in DOMAIN model.tags : model.tags[i].t \in {"undef", "null"}
            THEN respond(h, 500, errorBody("Fallo al contactar el servicio de IA"))
            ELSE With(keepAllowedTags(model.tags), LAMBDA sanitizedTags :
                    respond(h, 200,
                        Obj([summary |-> Str(IF model.summary = ""
                                             THEN "Paisaje sugerido por IA"
                                             ELSE model.summary),
                             tags |-> Arr(IF sanitizedTags = <<>>
                                          THEN <<Str("mirage")>> ELSE sanitizedTags),
                             entities |-> sanitizeEntities(model.entities)]))))

\* handler from the settled fetch to its end.
handlerFinish(h, outcome, content) ==
    With([h EXCEPT !.awaiting = FALSE], LAMBDA resumed :
        CASE outcome = "aborted" ->
                respond(resumed, 504, errorBody("Tiempo de espera agotado"))
          [] outcome = "network error" ->
                respond(resumed, 500, errorBody("Fallo al contactar el servicio de IA"))
          [] outcome = "429" -> respond(resumed, 429, errorBody("Error del proveedor de IA"))
          [] outcome = "503" -> respond(resumed, 503, errorBody("Error del proveedor de IA"))
          [] OTHER -> handlerAnswer(resumed, content))

InitApi ==
    /\ InitWorld
    /\ ui = idleUi
    /\ norm = idleNorm
    /\ sub = [n |-> 0, req |-> Null, apiKey |-> Undef, h |-> started, content |-> Undef]

\* A request arrives when no handler is suspended.
HandlerStarts ==
    \E req \in ApiRequests, apiKey \in ApiKeys :
        /\ sub.n < MaxRequests
        /\ ~sub.h.awaiting
        /\ sub' = [n |-> sub.n + 1, req |-> req, apiKey |-> apiKey,
                   h |-> handlerStart(req, apiKey), content |-> Undef]
        /\ UNCHANGED <<promptObjects, promptGroup, disposed, evicted, registered,
                       regLog, call, ui, norm, scene>>

\* The upstream fetch settles.
UpstreamSettles ==
    /\ sub.h.awaiting
    /\ \/ \E outcome \in {"aborted", "network error", "429", "503"} :
            sub' = [sub EXCEPT !.h = handlerFinish(sub.h, outcome, Undef)]
       \/ \E content \in ModelContents :
            sub' = [sub EXCEPT !.h = handlerFinish(sub.h, "ok", content),
                               !.content = content]
    /\ UNCHANGED <<promptObjects, promptGroup, disposed, evicted, registered,
                   regLog, call, ui, norm, scene>>

NextApi == HandlerStarts \/ UpstreamSettles

SpecApi == InitApi /\ [][NextApi]_vars

\* C26: every 200 response carries a non-empty tags array of ALLOWED_TAGS
\* members, holding the model's tags that are in the vocabulary once
\* lower-cased and trimmed, or exactly "mirage" when there is none.
C26_TagsOfVocabulary ==
    \A i \in DOMAIN sub.h.sent :
        sub.h.sent[i].status = 200 =>
            LET tags == sub.h.sent[i].body.o.tags.a
                model == decodeModel(IF sub.content.t = "str" THEN trim(sub.content.s) ELSE "")
                inVocabulary == {k \in DOMAIN model.tags :
                                    trim(toLowerCase(toStringJS(model.tags[k]))) \in ALLOWED_TAGS}
            IN  /\ Len(tags) >= 1
                /\ \A k \in DOMAIN tags : tags[k].t = "str" /\ tags[k].s \in ALLOWED_TAGS
                /\ inVocabulary = {} => tags = <<Str("mirage")>>
                /\ inVocabulary # {} =>
                      /\ Len(tags) = Cardinality(inVocabulary)
                      /\ \A k \in inVocabulary :
                            \E j \in DOMAIN tags :
                                tags[j].s = trim(toLowerCase(toStringJS(model.tags[k])))

\* A 200 response whose model tags were partly outside the vocabulary, and
\* one whose model output could not be decoded.
C26_Witness ==
    /\ Len(sub.h.sent) = 1
    /\ sub.h.sent[1].status = 200
    /\ \/ /\ sub.content = Str("{\"summary\":\"Dunas\",\"tags\":[\"Oasis \",\" bogus \",\"oasis\"]}")
          /\ sub.h.sent[1].body.o.tags = Arr(<<Str("oasis"), Str("oasis")>>)
       \/ /\ sub.content = Str("not json")
          /\ sub.h.sent[1].body.o.tags = Arr(<<Str("mirage")>>)

\* The status the first failing check asks for, 0 when every check passes:
\* OPTIONS, another method, a body that is no JSON, a prompt that is missing
\* or blank, a key that is not configured.
firstFailingCheck(req, apiKey) ==
    LET doc == JSONparse(IF req.body.s = "" THEN "{}" ELSE req.body.s)
        value == IF doc.ok /\ doc.value.t = "obj" THEN Prop(doc.value, "prompt") ELSE Undef
        promptText == IF typeofString(value) THEN trim(value.s) ELSE ""
    IN  CASE req.method = "OPTIONS" -> 204
          [] req.method # "POST" -> 405
          [] ~doc.ok -> 400
          [] promptText = "" -> 400
          [] ~truthy(apiKey) -> 500
          [] OTHER -> 0

\* The handler of the latest request answered as the first failing check asks.
answeredByFirstCheck ==
    LET expected == firstFailingCheck(sub.req, sub.apiKey)
    IN  /\ ~sub.h.threw
        /\ expected # 0 =>
              /\ sub.h.fetches = 0
              /\ Len(sub.h.sent) = 1
              /\ sub.h.sent[1].status = expected
        /\ expected = 0 =>
              /\ sub.h.fetches = 1
              /\ IF sub.h.awaiting THEN sub.h.sent = <<>> ELSE Len(sub.h.sent) = 1

\* C27: for a request whose body could be read, the handler calls the
\* upstream only when the method is POST, the body is JSON, the trimmed prompt
\* is non-empty and the key is configured; otherwise it answers 204, 405, 400,
\* 400 or 500 by the first failing check; and it sends exactly one response,
\* whatever the path.
C27_FirstFailingCheckAnswers ==
    sub.n > 0 /\ sub.req.body.t = "str" => answeredByFirstCheck

\* The same for the bodies that are no JSON, or an object whose prompt is a
\* string or absent.
C27_TextPromptsAnswered ==
    /\ sub.n > 0
    /\ sub.req.body.t = "str"
    /\ sub.req.method = "POST" =>
          sub.req.body.s \notin {"null", "{\"prompt\":123}"}
    => answeredByFirstCheck

\* A POST whose body decodes to null, or to an object whose prompt is a
\* number: the handler is over with nothing sent.
C27_NoResponse ==
    /\ sub.n > 0
    /\ sub.req.method = "POST"
    /\ sub.req.body = Str("{\"prompt\":123}")
    /\ sub.h.threw
    /\ sub.h.sent = <<>>
    /\ ~sub.h.awaiting

(***************************************************************************)
(* Claims about the loading flag                                           *)
(***************************************************************************)
\* C28: at most one handlePrompt call is in flight; while one is pending the
\* loading flag is set, so that the submit listener starts no other; and a
\* call that has ended, with the backend's plan or with the fallback's, has
\* cleared the flag.
C28_OneHandlerInFlight ==
    /\ sub.inFlight <= 1
    /\ sub.pc \in {"fetch", "json"} => ui.isLoading /\ sub.inFlight = 1
    /\ sub.pc = "done" => ~ui.isLoading /\ sub.inFlight = 0
    /\ ui.isLoading => \A raw \in InputValues : ~listenerInvokes(ui, raw)

\* A second submission was handled after the first had ended on the
\* fallback path.
C28_Witness ==
    /\ sub.n = 2
    /\ sub.pc = "done"
    /\ ~sub.usedLocalFallback
    /\ Len(ui.log) = 2
    /\ ui.log[2].meta = "Paisaje generado localmente (local)"
    /\ ~ui.isLoading

(***************************************************************************)
(* The spatial track (audio: createSpatialTrack, loadBuffer,               *)
(* tryStartSource, setDistance, unlock)                                    *)
(***************************************************************************)
MaxUnlocks == 2

\* createSpatialTrack's defaults.
minDistance == 8
maxDistance == 90

\* The closure's variables after createSpatialTrack: loading is "none" for
\* null and the stage of the promise chain otherwise; fetches and sources
\* count the fetch(url) and ctx.createBufferSource() calls; ramp is the
\* gain's target before Math.pow(target, 1.5), in 1/(safeMax - safeMin).
newTrack(state) ==
    [buffer |-> FALSE, source |-> FALSE, loading |-> "none", disabled |-> FALSE,
     ctx |-> state, fetches |-> 0, sources |-> 0, ramp |-> 0]

\* loadBuffer without the `loading` operand of its guard.
loadBufferIgnoresLoading(t) ==
    IF t.buffer \/ t.disabled THEN t
    ELSE [t EXCEPT !.loading = "fetching", !.fetches = @ + 1]

\* async function loadBuffer(), up to the return of the promise.
loadBuffer(t) ==
    IF t.buffer \/ t.loading # "none" \/ t.disabled THEN t
    ELSE [t EXCEPT !.loading = "fetching", !.fetches = @ + 1]

\* function tryStartSource()
tryStartSource(t) ==
    IF t.disabled \/ t.source \/ ~t.buffer \/ t.ctx # "running" THEN t
    ELSE [t EXCEPT !.source = TRUE, !.sources = @ + 1]

\* function setDistance(distance = maxDistance)
setDistance(t, distance) ==
    IF t.disabled THEN t
    ELSE LET loaded == IF ~t.buffer /\ t.loading = "none" THEN loadBuffer(t) ELSE t
             startedT == IF ~loaded.source /\ loaded.buffer THEN tryStartSource(loaded)
                         ELSE loaded
             safeMin == Max(0, minDistance)
             safeMax == Max(safeMin + 1, maxDistance)
             clamped == Max(safeMin, Min(safeMax, IF distance = 0 THEN safeMax ELSE distance))
         IN  [startedT EXCEPT !.ramp = (safeMax - safeMin) - (clamped - safeMin)]

Distances == {0, 5, 49, 90, 200}

InitTrack ==
    /\ InitWorld
    /\ ui = idleUi
    /\ norm = idleNorm
    /\ \E state \in {"suspended", "running"} :
          sub = [track |-> newTrack(state), unlocks |-> <<>>]

trackUnchanged ==
    UNCHANGED <<promptObjects, promptGroup, disposed, evicted, registered,
                regLog, call, ui, norm, scene>>

\* The render loop reports the distance to the shrine.
CallSetDistance ==
    \E distance \in Distances :
        /\ sub' = [sub EXCEPT !.track = setDistance(sub.track, distance)]
        /\ trackUnchanged

\* unlock() up to `await loadBuffer()`.
CallUnlock ==
    /\ Len(sub.unlocks) < MaxUnlocks
    /\ IF sub.track.disabled
       THEN sub' = [sub EXCEPT !.unlocks = Append(@, "done")]
       ELSE sub' = [track |-> loadBuffer(sub.track),
                    unlocks |-> Append(sub.unlocks, "awaitLoad")]
    /\ trackUnchanged

\* The promise chain of loadBuffer advances: the response arrives and is
\* decoded (buffer = decoded), or a step fails (disabled = true), and then
\* finally() resets loading.
LoadAdvances ==
    /\ sub.track.loading # "none"
    /\ \/ /\ sub.track.loading = "fetching"
          /\ sub' = [sub EXCEPT !.track.loading = "decoding"]
       \/ /\ sub.track.loading = "decoding"
          /\ sub' = [sub EXCEPT !.track.buffer = TRUE, !.track.loading = "settled"]
       \/ /\ sub.track.loading \in {"fetching", "decoding"}
          /\ sub' = [sub EXCEPT !.track.disabled = TRUE, !.track.loading = "settled"]
       \/ /\ sub.track.loading = "settled"
          /\ sub' = [sub EXCEPT !.track.loading = "none"]
    /\ trackUnchanged

\* unlock() after `await loadBuffer()`: ctx.resume() is awaited when the
\* context is suspended, otherwise tryStartSource() runs.
UnlockContinues ==
    \E i \in DOMAIN sub.unlocks :
        /\ sub.unlocks[i] = "awaitLoad"
        /\ sub.track.loading = "none"
        /\ IF sub.track.ctx = "suspended"
           THEN sub' = [sub EXCEPT !.unlocks[i] = "awaitResume"]
           ELSE sub' = [track |-> tryStartSource(sub.track),
                        unlocks |-> [sub.unlocks EXCEPT ![i] = "done"]]
        /\ trackUnchanged

\* `await ctx.resume()` settles, resolved or rejected; then tryStartSource().
ResumeSettles ==
    \E i \in DOMAIN sub.unlocks, state \in {"running", "suspended"} :
        /\ sub.unlocks[i] = "awaitResume"
        /\ sub' = [track |-> tryStartSource([sub.track EXCEPT !.ctx = state]),
                   unlocks |-> [sub.unlocks EXCEPT ![i] = "done"]]
        /\ trackUnchanged

NextTrack ==
    CallSetDistance \/ CallUnlock \/ LoadAdvances \/ UnlockContinues \/ ResumeSettles

SpecTrack == InitTrack /\ [][NextTrack]_vars

\* C29: whatever the order of setDistance calls, unlock calls and the steps
\* of the load, the URL is fetched at most once and at most one buffer source
\* is created; once the load has failed no source exists and none is
\* created, and no load is started again.
C29_OneFetchOneSource ==
    /\ sub.track.fetches <= 1
    /\ sub.track.sources <= 1
    /\ sub.track.source <=> sub.track.sources = 1
    /\ sub.track.disabled =>
          /\ sub.track.fetches = 1
          /\ sub.track.sources = 0
          /\ ~sub.track.buffer
          /\ sub.track.loading \in {"settled", "none"}
    /\ sub.track.sources = 1 => sub.track.buffer /\ sub.track.fetches = 1

\* Two unlock calls overlapped one load and have ended; the load either
\* succeeded and one source plays, or failed and the track is disabled.
C29_Witness ==
    /\ sub.unlocks = <<"done", "done">>
    /\ sub.track.fetches = 1
    /\ sub.track.loading = "none"
    /\ sub.track.ramp > 0
    /\ \/ sub.track.sources = 1
       \/ sub.track.disabled

(***************************************************************************)
(* Claims about the descriptors of the fallback plan                       *)
(***************************************************************************)
\* The entity types the keyword table maps the fragments found in a prompt to.
mappedTypes(prompt) ==
    {KEYWORD_MAP[j][2] : j \in keywordHits(toLowerCase(prompt), 1)}

\* C30: for a prompt in which a keyword occurs, the plan holds exactly one
\* descriptor for each mapped type and no other, each with a quantity of 1,
\* 2 or 3; for "un oasis con cristales" these are oasis and crystal.
C30_OneDescriptorPerType ==
    (norm.fn = "localGenerateFromPrompt" /\ mappedTypes(norm.input) # {}) =>
        LET entities == Prop(norm.output, "entities").a
        IN  /\ Len(entities) = Cardinality(mappedTypes(norm.input))
            /\ {entities[i].o.type.s : i \in DOMAIN entities} = mappedTypes(norm.input)
            /\ \A i, j \in DOMAIN entities :
                  entities[i].o.type = entities[j].o.type => i = j
            /\ \A i \in DOMAIN entities :
                  entities[i].o.quantity \in {Int10(1), Int10(2), Int10(3)}
            /\ norm.input = "un oasis con cristales" =>
                  /\ Len(entities) = 2
                  /\ entities[1].o.type = Str("oasis")
                  /\ entities[2].o.type = Str("crystal")

\* The prompt of the example, with a draw that gives three oases and one
\* crystal; "cristal" and "cristales" both occur in it.
C30_Witness ==
    /\ norm.fn = "localGenerateFromPrompt"
    /\ norm.input = "un oasis con cristales"
    /\ Cardinality(keywordHits(norm.input, 1)) = 3
    /\ Prop(norm.output, "entities").a =
          <<descriptor(Str("oasis"), Int10(3)), descriptor(Str("crystal"), Int10(1))>>

====
